---- MODULE Spec2Model ----
(***************************************************************************)
(* Flux: the expression language of the minesweeper UI.                   *)
(*                                                                         *)
(* A model of the lexer (flux::tokenize), the recursive-descent parser    *)
(* (flux::parse and its helpers), the AST evaluator (ast_node::evaluate)  *)
(* and the expression handle (struct flux::flux) with its lazily cached   *)
(* AST.                                                                    *)
(*                                                                         *)
(* Values.  The program computes in IEEE-754 float.  The model computes   *)
(* in the integers, which float represents exactly up to 2^24; a result   *)
(* that is not such an integer (a fraction, an infinity, a NaN, an         *)
(* undefined shift) is the outcome kind "untracked": the evaluation went  *)
(* on and returned a float, whose value the model does not follow.  Every *)
(* operator applied to an untracked operand gives an untracked result.    *)
(*                                                                         *)
(* Text.  A source string is a sequence of one-character strings, so that *)
(* the lexer can scan it; token values are such sequences too, and the    *)
(* parser turns them into TLA+ strings (Str) for names and operators.     *)
(***************************************************************************)
EXTENDS Integers, Sequences, FiniteSets, TLC

VARIABLES
    expr,            \* flux::expr       the handle's source
    ast,             \* flux::ast        the handle's cached AST (NullAst: none)
    variables,       \* flux::variables  the handle's locals
    constants,       \* flux::constants  the process-wide constant table
    tokenize_calls,  \* calls of tokenize() made by the handle since construction
    parse_calls,     \* calls of parse() made by the handle since construction
    evaluate_calls,  \* calls of evaluate() on the handle since construction
    evaluate_errors, \* those of them in which ast->evaluate() threw
    touched,         \* whether expr was assigned or refresh() called by the user since construction
    last,            \* what the last operation on the handle did
    source,          \* lexer check: the source text given to tokenize()
    lexed,           \* lexer check: what tokenize() returned
    tokens,          \* parser check: the token sequence given to parse()
    parsed,          \* parser check: what parse() returned
    node,            \* evaluator check: the AST under evaluation
    locals,          \* evaluator check: the locals it is evaluated with
    outcome,         \* evaluator check: what evaluate() returned
    phase,           \* which step the parser / evaluator check is at
    thread,          \* concurrent callers: each thread's position in evaluate() and its locals
    eager,           \* concurrent callers: refresh() was called before the handle was shared
    raced,           \* concurrent callers: two conflicting accesses were unordered
    cfg,             \* minesweeper::cfg    the game's configuration
    board,           \* minesweeper::board  the cells, by coordinates
    state,           \* minesweeper::state  the game state
    click,           \* the primary click in progress (its position in generate_board), or the last one
    children,        \* linear layout: the linear_item children, each with its rule
    l_bounds,        \* linear layout: the layout's bounds in the last rebound pass
    evals,           \* linear layout: the linear_rule::eval of each rule in the last pass
    rebounds,        \* linear layout: how many rebound passes have run
    lex_count        \* linear layout: tokenize() and parse() calls made for each item's expressions

vars == << expr, ast, variables, constants, tokenize_calls, parse_calls,
           evaluate_calls, evaluate_errors, touched, last, source, lexed, tokens, parsed,
           node, locals, outcome, phase, thread, eager, raced, cfg, board, state, click,
           children, l_bounds, evals, rebounds, lex_count >>

handle_vars == << expr, ast, variables, tokenize_calls, parse_calls,
                  evaluate_calls, evaluate_errors, touched, last >>
check_vars == << source, lexed, tokens, parsed, node, locals, outcome, phase >>
thread_vars == << thread, eager, raced >>
game_vars == << cfg, board, state, click >>
layout_vars == << children, l_bounds, evals, rebounds, lex_count >>
\* The variables of the other state machines of this module.
extra_vars == << thread_vars, game_vars, layout_vars >>

----------------------------------------------------------------------------
(* Small helpers                                                           *)

Abs(x) == IF x < 0 THEN -x ELSE x

Range(s) == { s[i] : i \in 1..Len(s) }

RECURSIVE Str(_)
\* The std::string made of the characters of s.
Str(s) == IF s = << >> THEN "" ELSE Head(s) \o Str(Tail(s))

\* Integers that a float holds exactly: |v| <= 2^24.
FloatExactLimit == 16777216

\* Width of int: the shift counts that are defined are 0 .. IntBits - 1.
IntBits == 32

----------------------------------------------------------------------------
(* AST nodes (flux.hpp: number_ast, variable_ast, function_ast,           *)
(* operator_ast, conditional_ast).  Every node is a record with a "type". *)

NullAst == [type |-> "null"]

\* exact = FALSE: the literal has a non-zero fractional part.
number_ast(value, exact) == [type |-> "number", value |-> value, exact |-> exact]
variable_ast(name) == [type |-> "variable", name |-> name]
function_ast(name, args) == [type |-> "function", name |-> name, args |-> args]
operator_ast(op, operands) == [type |-> "operator", op |-> op, operands |-> operands]
conditional_ast(condition, true, false) ==
    [type |-> "conditional", condition |-> condition, true |-> true, false |-> false]

----------------------------------------------------------------------------
(* Outcomes of an evaluation: a value, a float outside the integers, or a *)
(* thrown std::runtime_error.  "trace" lists, in order, what the          *)
(* evaluation did: each leaf read, each function-table lookup, each       *)
(* function invocation, each operator application.                        *)

Value(v, tr) ==
    IF Abs(v) > FloatExactLimit
    THEN [kind |-> "untracked", v |-> 0, err |-> << >>, trace |-> tr]
    ELSE [kind |-> "value", v |-> v, err |-> << >>, trace |-> tr]
Untracked(tr) == [kind |-> "untracked", v |-> 0, err |-> << >>, trace |-> tr]
Throw(e, tr) == [kind |-> "error", v |-> 0, err |-> e, trace |-> tr]

Bool(b, tr) == Value(IF b THEN 1 ELSE 0, tr)

----------------------------------------------------------------------------
(* Arithmetic of the operators, on exactly represented integers.          *)

Sign(x) == IF x < 0 THEN -1 ELSE 1

\* l * r, or FloatExactLimit + 1 in magnitude when the product is beyond it.
MulSat(l, r) ==
    IF l = 0 \/ r = 0 THEN 0
    ELSE IF Abs(l) > FloatExactLimit \div Abs(r)
         THEN Sign(l) * Sign(r) * (FloatExactLimit + 1)
         ELSE l * r

RECURSIVE PowSat(_, _)
\* b ** e for e >= 0, staying beyond the limit once beyond it.
PowSat(b, e) ==
    IF e = 0 THEN 1
    ELSE IF b \in {0, 1} THEN b
    ELSE IF b = -1 THEN (IF e % 2 = 0 THEN 1 ELSE -1)
    ELSE IF e > IntBits THEN FloatExactLimit + 1
    ELSE MulSat(PowSat(b, e - 1), b)

\* The remainder of the flooring division, for r # 0: its sign follows r.
fmod_floored(l, r) == IF r > 0 THEN l % r ELSE -((-l) % (-r))

\* std::fmod(l, r) for r # 0: the remainder of the truncating division.
fmod(l, r) == Sign(l) * (Abs(l) % Abs(r))

\* std::floor(l / r) for r # 0.
floor_div(l, r) == IF r > 0 THEN l \div r ELSE (-l) \div (-r)

RECURSIVE BitAnd(_, _)
RECURSIVE BitOr(_, _)
RECURSIVE BitXor(_, _)
\* Two's complement bitwise operators of int, bit by bit from the lowest.
BitAnd(a, b) ==
    IF a = 0 \/ b = 0 THEN 0
    ELSE IF a = -1 THEN b
    ELSE IF b = -1 THEN a
    ELSE (a % 2) * (b % 2) + 2 * BitAnd(a \div 2, b \div 2)
BitOr(a, b) ==
    IF a = 0 THEN b
    ELSE IF b = 0 THEN a
    ELSE IF a = -1 \/ b = -1 THEN -1
    ELSE (IF a % 2 = 1 \/ b % 2 = 1 THEN 1 ELSE 0) + 2 * BitOr(a \div 2, b \div 2)
BitXor(a, b) ==
    IF a = 0 THEN b
    ELSE IF b = 0 THEN a
    ELSE IF a = -1 THEN -b - 1
    ELSE IF b = -1 THEN -a - 1
    ELSE (IF a % 2 # b % 2 THEN 1 ELSE 0) + 2 * BitXor(a \div 2, b \div 2)

\* The unary operators the evaluator implements (flux.cpp 677-683).
unary_ops == {"+", "-", "*", "/", "!", "~"}

\* The binary operators the evaluator implements (flux.cpp 693-731).
binary_ops ==
    {"+", "-", "*", "/", "%", "%%", "**", "//",
     "==", "!=", "<", ">", "<=", ">=", "!<", "!>", "!<=", "!>=",
     "&&", "||", "=>", "&", "|", "^", "<<", ">>", "<?", ">?", "!!", "??"}

\* operator_ast::evaluate, one operand: op applied to the float x.
unary_apply(op, x, tr) ==
    CASE op = "+" -> Value(x, tr)
      [] op = "-" -> Value(-x, tr)
      [] op = "*" -> Value(x, tr)
      [] op = "/" -> IF x \in {1, -1} THEN Value(x, tr) ELSE Untracked(tr)
      [] op = "!" -> Bool(x = 0, tr)
      [] op = "~" -> Value(-x - 1, tr)
      [] OTHER -> Throw(<<"Invalid unary operator", op>>, tr)

\* operator_ast::evaluate, two operands: op applied to the floats l and r.
binary_apply(op, l, r, tr) ==
    CASE op = "+" -> Value(l + r, tr)
      [] op = "-" -> Value(l - r, tr)
      [] op = "*" -> Value(MulSat(l, r), tr)
      [] op = "/" -> IF r # 0 /\ l % Abs(r) = 0
                     THEN Value(floor_div(l, r), tr) ELSE Untracked(tr)
      [] op = "%" -> IF r # 0 THEN Value(fmod(l, r), tr) ELSE Untracked(tr)
      [] op = "%%" -> IF r # 0
                      THEN LET result == fmod(l, r)
                           IN  Value(IF result < 0 THEN result + r ELSE result, tr)
                      ELSE Untracked(tr)
      [] op = "**" -> IF r >= 0 THEN Value(PowSat(l, r), tr)
                      ELSE IF l \in {1, -1} THEN Value(PowSat(l, -r), tr)
                      ELSE Untracked(tr)
      [] op = "//" -> IF r # 0 THEN Value(floor_div(l, r), tr) ELSE Untracked(tr)
      [] op = "==" -> Bool(l = r, tr)
      [] op = "!=" -> Bool(l # r, tr)
      [] op = "<" -> Bool(l < r, tr)
      [] op = ">" -> Bool(l > r, tr)
      [] op = "<=" -> Bool(l <= r, tr)
      [] op = ">=" -> Bool(l >= r, tr)
      [] op = "!<" -> Bool(~(l < r), tr)
      [] op = "!>" -> Bool(~(l > r), tr)
      [] op = "!<=" -> Bool(~(l <= r), tr)
      [] op = "!>=" -> Bool(~(l >= r), tr)
      [] op = "&&" -> Bool(l # 0 /\ r # 0, tr)
      [] op = "||" -> Bool(l # 0 \/ r # 0, tr)
      [] op = "=>" -> Bool(~(l # 0) \/ r # 0, tr)
      [] op = "&" -> Value(BitAnd(l, r), tr)
      [] op = "|" -> Value(BitOr(l, r), tr)
      [] op = "^" -> Value(BitXor(l, r), tr)
      [] op = "<<" -> IF r >= 0 /\ r < IntBits
                      THEN Value(MulSat(l, PowSat(2, r)), tr) ELSE Untracked(tr)
      [] op = ">>" -> IF r >= 0 /\ r < IntBits
                      THEN Value(l \div PowSat(2, r), tr) ELSE Untracked(tr)
      [] op = "<?" -> Value(IF r < l THEN r ELSE l, tr)
      [] op = ">?" -> Value(IF l < r THEN r ELSE l, tr)
      [] op = "!!" -> Value(Abs(l - r), tr)
      [] op = "??" -> Value(IF l # 0 THEN l ELSE r, tr)
      [] OTHER -> Throw(<<"Invalid binary operator", op>>, tr)

----------------------------------------------------------------------------
(* The symbol registry.  `constants` is a state variable (a process-wide  *)
(* table the setup code fills); `functions` holds the built-ins that      *)
(* add_builtin_functions registers, of which the model keeps three.       *)

function_names == {"abs", "max", "min"}

\* The float arguments as the model follows them.
AllTracked(values) == \A i \in 1..Len(values) : values[i].kind = "value"

RECURSIVE SeqMax(_)
SeqMax(values) ==
    IF Len(values) = 1 THEN values[1].v
    ELSE LET m == SeqMax(Tail(values))
         IN  IF values[1].v < m THEN m ELSE values[1].v

RECURSIVE SeqMin(_)
SeqMin(values) ==
    IF Len(values) = 1 THEN values[1].v
    ELSE LET m == SeqMin(Tail(values))
         IN  IF m < values[1].v THEN m ELSE values[1].v

\* functions["abs"]
builtin_abs(params, tr) ==
    IF Len(params) # 1 THEN Throw(<<"Invalid parameters for", "abs">>, tr)
    ELSE IF ~AllTracked(params) THEN Untracked(tr)
    ELSE Value(Abs(params[1].v), tr)

\* functions["max"]
builtin_max(params, tr) ==
    IF Len(params) # 2 THEN Throw(<<"Invalid parameters for", "max">>, tr)
    ELSE IF ~AllTracked(params) THEN Untracked(tr)
    ELSE Value(SeqMax(params), tr)

\* functions["min"]: no check of params.size(); std::ranges::min of an empty
\* range is undefined behaviour, the outcome kind "undefined".
builtin_min(params, tr) ==
    IF Len(params) = 0
    THEN [kind |-> "undefined", v |-> 0, err |-> << >>, trace |-> tr]
    ELSE IF ~AllTracked(params) THEN Untracked(tr)
    ELSE Value(SeqMin(params), tr)

\* functions.at(name)(values)
call_function(name, values, tr) ==
    CASE name = "abs" -> builtin_abs(values, tr)
      [] name = "max" -> builtin_max(values, tr)
      [] name = "min" -> builtin_min(values, tr)

----------------------------------------------------------------------------
(* The evaluator: ast_node::evaluate(variables), by node type.            *)

RECURSIVE ast_evaluate(_, _)
RECURSIVE evaluate_args(_, _, _, _)

\* number_ast::evaluate
number_ast_evaluate(n, vs) ==
    IF n.exact THEN Value(n.value, << <<"number">> >>)
    ELSE Untracked(<< <<"number">> >>)

\* variable_ast::evaluate, with the constant table consulted first.
variable_ast_evaluate_constants_first(n, vs) ==
    IF n.name \in DOMAIN constants
    THEN Value(constants[n.name], << <<"variable", n.name>> >>)
    ELSE IF n.name \in DOMAIN vs
    THEN Value(vs[n.name], << <<"variable", n.name>> >>)
    ELSE Throw(<<"Invalid variable", n.name>>, << <<"variable", n.name>> >>)

\* variable_ast::evaluate
variable_ast_evaluate(n, vs) ==
    IF n.name \in DOMAIN vs
    THEN Value(vs[n.name], << <<"variable", n.name>> >>)
    ELSE IF n.name \in DOMAIN constants
    THEN Value(constants[n.name], << <<"variable", n.name>> >>)
    ELSE Throw(<<"Invalid variable", n.name>>, << <<"variable", n.name>> >>)

\* The loop of function_ast::evaluate over args, from index i on: the values
\* collected so far are `values`; stops at the first argument that throws.
evaluate_args(args, i, vs, acc) ==
    IF i > Len(args) THEN acc
    ELSE LET a == ast_evaluate(args[i], vs)
         IN  IF a.kind = "error"
             THEN [kind |-> "error", values |-> acc.values, err |-> a.err,
                   trace |-> acc.trace \o a.trace]
             ELSE evaluate_args(args, i + 1, vs,
                      [kind |-> "value",
                       values |-> Append(acc.values, [kind |-> a.kind, v |-> a.v]),
                       err |-> << >>, trace |-> acc.trace \o a.trace])

NoArgs(tr) == [kind |-> "value", values |-> << >>, err |-> << >>, trace |-> tr]

\* function_ast::evaluate, with the arguments evaluated before the lookup.
function_ast_evaluate_args_first(n, vs) ==
    LET a == evaluate_args(n.args, 1, vs, NoArgs(<< >>))
        looked == a.trace \o << <<"lookup", n.name>> >>
    IN  IF a.kind = "error" THEN Throw(a.err, a.trace)
        ELSE IF n.name \notin function_names
        THEN Throw(<<"Invalid function", n.name>>, looked)
        ELSE call_function(n.name, a.values, looked \o << <<"invoke", n.name>> >>)

\* function_ast::evaluate
function_ast_evaluate(n, vs) ==
    LET looked == << <<"lookup", n.name>> >>
    IN  IF n.name \notin function_names
        THEN Throw(<<"Invalid function", n.name>>, looked)
        ELSE LET a == evaluate_args(n.args, 1, vs, NoArgs(looked))
             IN  IF a.kind = "error" THEN Throw(a.err, a.trace)
                 ELSE call_function(n.name, a.values,
                                    a.trace \o << <<"invoke", n.name>> >>)

\* The one-operand branch of operator_ast::evaluate.
operator_ast_unary(n, vs) ==
    LET x == ast_evaluate(n.operands[1], vs)
        tr == x.trace \o << <<"operator", n.op>> >>
    IN  IF x.kind = "error" THEN x
        ELSE IF n.op \notin unary_ops
        THEN Throw(<<"Invalid unary operator", n.op>>, tr)
        ELSE IF x.kind # "value" THEN Untracked(tr)
        ELSE unary_apply(n.op, x.v, tr)

\* The two-operand branch of operator_ast::evaluate, with && and ||
\* short-circuiting on the left operand.
operator_ast_binary_short_circuit(n, vs) ==
    LET left == ast_evaluate(n.operands[1], vs)
    IN  IF left.kind = "error" THEN left
        ELSE IF left.kind = "value" /\ n.op = "&&" /\ left.v = 0
        THEN Bool(FALSE, left.trace \o << <<"operator", n.op>> >>)
        ELSE IF left.kind = "value" /\ n.op = "||" /\ left.v # 0
        THEN Bool(TRUE, left.trace \o << <<"operator", n.op>> >>)
        ELSE LET right == ast_evaluate(n.operands[2], vs)
                 tr == left.trace \o right.trace \o << <<"operator", n.op>> >>
             IN  IF right.kind = "error" THEN Throw(right.err, left.trace \o right.trace)
                 ELSE IF n.op \notin binary_ops
                 THEN Throw(<<"Invalid binary operator", n.op>>, tr)
                 ELSE IF left.kind # "value" \/ right.kind # "value" THEN Untracked(tr)
                 ELSE binary_apply(n.op, left.v, right.v, tr)

\* The two-operand branch of operator_ast::evaluate.
operator_ast_binary(n, vs) ==
    LET left == ast_evaluate(n.operands[1], vs)
    IN  IF left.kind = "error" THEN left
        ELSE LET right == ast_evaluate(n.operands[2], vs)
                 tr == left.trace \o right.trace \o << <<"operator", n.op>> >>
             IN  IF right.kind = "error" THEN Throw(right.err, left.trace \o right.trace)
                 ELSE IF n.op \notin binary_ops
                 THEN Throw(<<"Invalid binary operator", n.op>>, tr)
                 ELSE IF left.kind # "value" \/ right.kind # "value" THEN Untracked(tr)
                 ELSE binary_apply(n.op, left.v, right.v, tr)

\* operator_ast::evaluate
operator_ast_evaluate(n, vs) ==
    IF Len(n.operands) = 1 THEN operator_ast_unary(n, vs)
    ELSE IF Len(n.operands) = 2 THEN operator_ast_binary(n, vs)
    ELSE Throw(<<"Invalid number of operands">>, << >>)

\* conditional_ast::evaluate, with both branches evaluated before the choice.
conditional_ast_evaluate_both(n, vs) ==
    LET c == ast_evaluate(n.condition, vs)
    IN  IF c.kind = "error" THEN c
        ELSE IF c.kind # "value" THEN Untracked(c.trace \o << <<"branch unknown">> >>)
        ELSE LET t == ast_evaluate(n.true, vs)
                 f == ast_evaluate(n.false, vs)
             IN  IF t.kind = "error" THEN Throw(t.err, c.trace \o t.trace)
                 ELSE IF f.kind = "error"
                 THEN Throw(f.err, c.trace \o t.trace \o f.trace)
                 ELSE LET b == IF c.v # 0 THEN t ELSE f
                      IN  [b EXCEPT !.trace = c.trace \o t.trace \o f.trace]

\* conditional_ast::evaluate.  A condition the model does not follow leaves
\* the branch taken unknown.
conditional_ast_evaluate(n, vs) ==
    LET c == ast_evaluate(n.condition, vs)
    IN  IF c.kind = "error" THEN c
        ELSE IF c.kind # "value" THEN Untracked(c.trace \o << <<"branch unknown">> >>)
        ELSE LET b == IF c.v # 0 THEN ast_evaluate(n.true, vs)
                                 ELSE ast_evaluate(n.false, vs)
             IN  [b EXCEPT !.trace = c.trace \o b.trace]

\* The virtual call node->evaluate(variables).
ast_evaluate(n, vs) ==
    CASE n.type = "number" -> number_ast_evaluate(n, vs)
      [] n.type = "variable" -> variable_ast_evaluate(n, vs)
      [] n.type = "function" -> function_ast_evaluate(n, vs)
      [] n.type = "operator" -> operator_ast_evaluate(n, vs)
      [] n.type = "conditional" -> conditional_ast_evaluate(n, vs)

----------------------------------------------------------------------------
(* The lexer: flux::tokenize.                                              *)

token(type, value) == [type |-> type, value |-> value]

letters ==
    {"a", "b", "c", "d", "e", "f", "g", "h", "i", "j", "k", "l", "m",
     "n", "o", "p", "q", "r", "s", "t", "u", "v", "w", "x", "y", "z",
     "A", "B", "C", "D", "E", "F", "G", "H", "I", "J", "K", "L", "M",
     "N", "O", "P", "Q", "R", "S", "T", "U", "V", "W", "X", "Y", "Z"}
ident_start == letters \cup {"_"}
number_start == {"0", "1", "2", "3", "4", "5", "6", "7", "8", "9"}
ident_cont == ident_start \cup number_start \cup {"."}
number_cont == number_start \cup {".", "'"}
op_chars ==
    {"+", "-", "*", "/", "%", "^", "=", "!", "~", "&", "|", "<", ">", "?", ":", "[", "]"}
punct_chars == {"@", "#", "$", "(", ")", "{", "}", "\\", ";", ","}
\* The characters std::isspace accepts.
space_chars == {" ", "\t", "\n", "\r", "\f"}

RECURSIVE run_end(_, _, _)
\* The inner loops `while (pos < code.size() && set.contains(code[pos])) pos++`:
\* the first position from pos on that is past the end or not in the set.
run_end(code, pos, set) ==
    IF pos <= Len(code) /\ code[pos] \in set THEN run_end(code, pos + 1, set) ELSE pos

\* The punctuation loop emitting the whole run [pos, stop) as one token.
punct_run_token(code, pos, stop) ==
    IF pos >= stop THEN << >>
    ELSE << token("punctuation", SubSeq(code, pos, stop - 1)) >>

RECURSIVE punct_tokens(_, _, _)
\* The punctuation loop: one token for each character of the run [pos, stop).
punct_tokens(code, pos, stop) ==
    IF pos >= stop THEN << >>
    ELSE << token("punctuation", << code[pos] >>) >> \o punct_tokens(code, pos + 1, stop)

RECURSIVE tokenize_from(_, _, _)
\* The outer loop of tokenize from position pos (1-based), `toks` emitted so far.
tokenize_from(code, pos, toks) ==
    IF pos > Len(code) THEN [ok |-> TRUE, tokens |-> toks, err |-> << >>, at |-> 0]
    ELSE IF code[pos] \in space_chars
    THEN tokenize_from(code, run_end(code, pos, space_chars), toks)
    ELSE IF code[pos] \in ident_start
    THEN LET stop == run_end(code, pos, ident_cont)
         IN  tokenize_from(code, stop,
                 Append(toks, token("identifier", SubSeq(code, pos, stop - 1))))
    ELSE IF code[pos] \in number_start
    THEN LET stop == run_end(code, pos, number_cont)
         IN  tokenize_from(code, stop,
                 Append(toks, token("number", SubSeq(code, pos, stop - 1))))
    ELSE IF code[pos] \in op_chars
    THEN LET stop == run_end(code, pos, op_chars)
         IN  tokenize_from(code, stop,
                 Append(toks, token("operator", SubSeq(code, pos, stop - 1))))
    ELSE IF code[pos] \in punct_chars
    THEN LET stop == run_end(code, pos, punct_chars)
         IN  tokenize_from(code, stop, toks \o punct_tokens(code, pos, stop))
    ELSE [ok |-> FALSE, tokens |-> << >>,
          err |-> <<"Invalid character in token", code[pos]>>, at |-> pos - 1]

\* flux::tokenize(code)
tokenize(code) == tokenize_from(code, 1, << >>)

----------------------------------------------------------------------------
(* The parser: flux::parse and its static helpers.  Positions are 1-based: *)
(* `pos > Len(toks)` is the code's `pos >= tokens.size()`.  A result is    *)
(* either a node with the position after it, or the exception thrown.     *)

Parsed(n, pos) == [ok |-> TRUE, node |-> n, pos |-> pos, err |-> << >>]
ParseError(e) == [ok |-> FALSE, node |-> NullAst, pos |-> 0, err |-> e]

bin_op_prec_additive_tightest ==
    << <<"&", "|", "^">>,
       <<"<<", ">>">>,
       <<"*", "/">>,
       <<"%", "%%">>,
       <<"**", "//">>,
       <<"<?", ">?">>,
       <<"==", "!=", "<", ">", "<=", ">=", "!<", "!>", "!<=", "!>=">>,
       <<"&&", "||">>,
       <<"=>">>,
       <<"??">>,
       <<"+", "-">> >>

\* Binary operator precedences: index (from 0) = precedence level.
bin_op_prec ==
    << <<"&", "|", "^">>,
       <<"<<", ">>">>,
       <<"+", "-">>,
       <<"*", "/">>,
       <<"%", "%%">>,
       <<"**", "//">>,
       <<"<?", ">?">>,
       <<"==", "!=", "<", ">", "<=", ">=", "!<", "!>", "!<=", "!>=">>,
       <<"&&", "||">>,
       <<"=>">>,
       <<"??">> >>

is_punct(toks, pos, ch) ==
    pos <= Len(toks) /\ toks[pos].type = "punctuation" /\ toks[pos].value = << ch >>
is_op(toks, pos, ch) ==
    pos <= Len(toks) /\ toks[pos].type = "operator" /\ toks[pos].value = << ch >>

digit_value ==
    [c \in number_start |->
        CASE c = "0" -> 0 [] c = "1" -> 1 [] c = "2" -> 2 [] c = "3" -> 3
          [] c = "4" -> 4 [] c = "5" -> 5 [] c = "6" -> 6 [] c = "7" -> 7
          [] c = "8" -> 8 [] c = "9" -> 9]

RECURSIVE digits_value(_, _)
\* The decimal value of a run of digits, most significant first.
digits_value(s, acc) ==
    IF s = << >> THEN acc ELSE digits_value(Tail(s), 10 * acc + digit_value[Head(s)])

\* std::regex_replace(num_str, std::regex("'"), "")
strip_separators(s) == SelectSeq(s, LAMBDA c : c # "'")

\* std::stof on a string that starts with a digit and holds digits and dots:
\* the integer part up to the first dot, and whether the digits between the
\* first and the second dot are all zero.
stof(s) ==
    LET dot == run_end(s, 1, number_start)
        stop == run_end(s, dot + 1, number_start)
        frac == IF dot > Len(s) THEN << >> ELSE SubSeq(s, dot + 1, stop - 1)
    IN  [value |-> digits_value(SubSeq(s, 1, dot - 1), 0),
         exact |-> \A i \in 1..Len(frac) : frac[i] = "0"]

RECURSIVE parse_primary(_, _)
RECURSIVE parse_unary(_, _)
RECURSIVE parse_expr_lvl(_, _, _)
RECURSIVE parse_expr_loop(_, _, _, _)
RECURSIVE parse_expr_levels(_, _, _, _)
RECURSIVE parse_func_args(_, _, _)

\* parse_unary: any operator token is taken as a prefix operator.
parse_unary(toks, pos) ==
    IF pos > Len(toks)
    THEN ParseError(<<"Unexpected end of tokens in unary operator expression">>)
    ELSE IF toks[pos].type # "operator" THEN parse_primary(toks, pos)
    ELSE LET operand == parse_unary(toks, pos + 1)
         IN  IF ~operand.ok THEN operand
             ELSE Parsed(operator_ast(Str(toks[pos].value), << operand.node >>),
                         operand.pos)

\* parse_number
parse_number(toks, pos) ==
    IF pos > Len(toks)
    THEN ParseError(<<"Unexpected end of tokens in numeric expression">>)
    ELSE IF toks[pos].type # "number"
    THEN ParseError(<<"Expected number in numeric expression">>)
    ELSE LET f == stof(strip_separators(toks[pos].value))
         IN  Parsed(number_ast(f.value, f.exact), pos + 1)

\* The while loop of parse_func: the arguments from pos on, `args` so far.
parse_func_args(toks, pos, args) ==
    IF pos <= Len(toks) /\ ~is_punct(toks, pos, ")")
    THEN LET a == parse_expr_lvl(toks, pos, 0)
         IN  IF ~a.ok THEN [ok |-> FALSE, args |-> args, pos |-> 0, err |-> a.err]
             ELSE IF is_punct(toks, a.pos, ",")
             THEN parse_func_args(toks, a.pos + 1, Append(args, a.node))
             ELSE [ok |-> TRUE, args |-> Append(args, a.node), pos |-> a.pos,
                   err |-> << >>]
    ELSE [ok |-> TRUE, args |-> args, pos |-> pos, err |-> << >>]

\* parse_func
parse_func(toks, pos, ident) ==
    IF pos > Len(toks)
    THEN ParseError(<<"Unexpected end of tokens in function call expression">>)
    ELSE IF ~is_punct(toks, pos, "(")
    THEN ParseError(<<"Expected \"(\" in function call expression">>)
    ELSE LET a == parse_func_args(toks, pos + 1, << >>)
         IN  IF ~a.ok THEN ParseError(a.err)
             ELSE IF ~is_punct(toks, a.pos, ")")
             THEN ParseError(<<"Expected \")\" in function call">>)
             ELSE Parsed(function_ast(ident, a.args), a.pos + 1)

\* parse_var
parse_var(toks, pos, ident) == Parsed(variable_ast(ident), pos)

\* parse_ident
parse_ident(toks, pos) ==
    IF pos > Len(toks)
    THEN ParseError(<<"Unexpected end of tokens in identifier expression">>)
    ELSE LET ident == Str(toks[pos].value)
         IN  IF is_punct(toks, pos + 1, "(")
             THEN parse_func(toks, pos + 1, ident)
             ELSE parse_var(toks, pos + 1, ident)

\* parse_paren
parse_paren(toks, pos) ==
    IF pos > Len(toks)
    THEN ParseError(<<"Unexpected end of tokens in parenthesis expression">>)
    ELSE IF ~is_punct(toks, pos, "(")
    THEN ParseError(<<"Expected \"(\" in parenthesis expression">>)
    ELSE LET e == parse_expr_lvl(toks, pos + 1, 0)
         IN  IF ~e.ok THEN e
             ELSE IF ~is_punct(toks, e.pos, ")")
             THEN ParseError(<<"Expected \")\" in parenthesis expression">>)
             ELSE Parsed(e.node, e.pos + 1)

\* parse_primary
parse_primary(toks, pos) ==
    IF pos > Len(toks)
    THEN ParseError(<<"Unexpected end of tokens in primary expression">>)
    ELSE IF toks[pos].type = "number" THEN parse_number(toks, pos)
    ELSE IF toks[pos].type = "identifier" THEN parse_ident(toks, pos)
    ELSE IF is_punct(toks, pos, "(") THEN parse_paren(toks, pos)
    ELSE ParseError(<<"Unexpected token in primary expression", Str(toks[pos].value)>>)

\* The while loop of parse_expr_lvl: `left` parsed so far, lookahead at pos.
parse_expr_loop(toks, pos, lvl, left) ==
    IF /\ pos <= Len(toks)
       /\ toks[pos].type = "operator"
       /\ Str(toks[pos].value) \in Range(bin_op_prec[lvl + 1])
    THEN LET right == parse_expr_lvl(toks, pos + 1, lvl + 1)
         IN  IF ~right.ok THEN right
             ELSE parse_expr_loop(toks, right.pos, lvl,
                      operator_ast(Str(toks[pos].value), << left, right.node >>))
    ELSE Parsed(left, pos)

\* The returns of the nested calls of parse_expr_lvl.  On the way down the
\* calls parse_expr_lvl(lvl + 1), ..., parse_expr_lvl(bin_op_prec.size()) do
\* nothing but call the next one, the last calling parse_unary; on the way
\* back each level runs its while loop on what the level above returned, or
\* lets its exception through.  `left` is what level l + 1 returned.
parse_expr_levels(toks, lvl, l, left) ==
    IF l < lvl \/ ~left.ok THEN left
    ELSE parse_expr_levels(toks, lvl, l - 1,
                           parse_expr_loop(toks, left.pos, l, left.node))

\* parse_expr_lvl, lvl counted from 0 as in the code.
parse_expr_lvl(toks, pos, lvl) ==
    parse_expr_levels(toks, lvl, Len(bin_op_prec) - 1, parse_unary(toks, pos))

\* parse_cond after both branches: the conditional node.
parse_cond_node(cond, true_expr, false_expr) ==
    IF ~false_expr.ok THEN false_expr
    ELSE Parsed(conditional_ast(cond, true_expr.node, false_expr.node), false_expr.pos)

\* parse_cond after the branch true_expr: the ":" and the other branch.
parse_cond_false(toks, cond, true_expr) ==
    IF ~true_expr.ok THEN true_expr
    ELSE IF ~is_op(toks, true_expr.pos, ":")
    THEN ParseError(<<"Expected \":\" in conditional expression">>)
    ELSE parse_cond_node(cond, true_expr, parse_expr_lvl(toks, true_expr.pos + 1, 0))

\* parse_cond
parse_cond(toks, pos, cond) ==
    IF pos > Len(toks)
    THEN ParseError(<<"Unexpected end of tokens in conditional expression">>)
    ELSE IF ~is_op(toks, pos, "?")
    THEN ParseError(<<"Expected \"?\" in conditional expression">>)
    ELSE parse_cond_false(toks, cond, parse_expr_lvl(toks, pos + 1, 0))

\* parse_all after the binary chain e: the conditional operator.
parse_all_cond(toks, e) ==
    IF ~e.ok THEN e
    ELSE IF is_op(toks, e.pos, "?") THEN parse_cond(toks, e.pos, e.node)
    ELSE e

\* The first two steps of parse_all: the binary chain, then the conditional.
parse_all_expr(toks, pos) == parse_all_cond(toks, parse_expr_lvl(toks, pos, 0))

\* parse_all after the expression e: the check for tokens left over.
parse_all_end(toks, e) ==
    IF ~e.ok THEN e
    ELSE IF e.pos # Len(toks) + 1
    THEN ParseError(<<"Unexpected tokens at the end of expression">>)
    ELSE e

\* parse_all without its check for tokens left over.
parse_all_no_end_check(toks, pos) == parse_all_expr(toks, pos)

\* parse_all
parse_all(toks, pos) == parse_all_end(toks, parse_all_expr(toks, pos))

\* flux::parse(tokens)
parse(toks) == parse_all(toks, 1)

----------------------------------------------------------------------------
(* The expression handle: struct flux::flux.  The member functions are    *)
(* operators on the handle h = [expr, ast, variables]; each returns the   *)
(* handle after the call, whether the call threw and at which stage, what *)
(* it returned, and how many times it called tokenize() and parse().      *)

NoOutcome == [kind |-> "none", v |-> 0, err |-> << >>, trace |-> << >>]

Done(h, threw, stage, result, nt, np) ==
    [h |-> h, threw |-> threw, stage |-> stage, result |-> result,
     tokenized |-> nt, parsed |-> np]

\* refresh() after parse(tokens) returned q: the assignment to ast.
refresh_parsed(h, q) ==
    IF ~q.ok THEN Done(h, TRUE, "parse", Throw(q.err, << >>), 1, 1)
    ELSE Done([h EXCEPT !.ast = q.node], FALSE, "", NoOutcome, 1, 1)

\* refresh() after tokenize(expr) returned t.
refresh_tokenized(h, t) ==
    IF ~t.ok THEN Done(h, TRUE, "tokenize", Throw(t.err, << >>), 1, 0)
    ELSE refresh_parsed(h, parse(t.tokens))

\* flux::refresh, with a cached AST kept when there is one.
flux_refresh_keeps_cache(h) ==
    IF h.expr = << >> \/ h.ast # NullAst THEN Done(h, FALSE, "", NoOutcome, 0, 0)
    ELSE refresh_tokenized(h, tokenize(h.expr))

\* flux::refresh
flux_refresh(h) ==
    IF h.expr = << >> THEN Done(h, FALSE, "", NoOutcome, 0, 0)
    ELSE refresh_tokenized(h, tokenize(h.expr))

\* The return of flux::evaluate: r is what ast->evaluate(variables) gave.
evaluate_return(h, r, nt, np) ==
    Done(h, r.kind = "error", IF r.kind = "error" THEN "evaluate" ELSE "", r, nt, np)

\* The rest of flux::evaluate once the AST is cached: ast->evaluate(variables).
evaluate_cached(h, nt, np) ==
    evaluate_return(h, ast_evaluate(h.ast, h.variables), nt, np)

\* flux::evaluate after its call of refresh() gave f.
evaluate_refreshed(f) ==
    IF f.threw THEN f ELSE evaluate_cached(f.h, f.tokenized, f.parsed)

\* The test `!ast` of flux::evaluate, refreshing whatever the cache holds.
needs_refresh_always(h) == TRUE

\* The test `!ast` of flux::evaluate.
needs_refresh(h) == h.ast = NullAst

\* flux::evaluate, refreshing on every call.
flux_evaluate_always_refresh(h) ==
    IF h.expr = << >> THEN Done(h, FALSE, "", Value(0, << >>), 0, 0)
    ELSE evaluate_refreshed(flux_refresh(h))

\* flux::evaluate, without the test for an empty source.
flux_evaluate_no_empty_check(h) ==
    IF h.ast = NullAst
    THEN evaluate_refreshed(refresh_tokenized(h, tokenize(h.expr)))
    ELSE evaluate_cached(h, 0, 0)

\* flux::evaluate
flux_evaluate(h) ==
    IF h.expr = << >> THEN Done(h, FALSE, "", Value(0, << >>), 0, 0)
    ELSE IF needs_refresh(h) THEN evaluate_refreshed(flux_refresh(h))
    ELSE evaluate_cached(h, 0, 0)

----------------------------------------------------------------------------
(* Bounds and inputs of the handle's state machine.                        *)

\* Calls of evaluate(), and of tokenize(), followed on one handle.
MaxCalls == 3

S_empty == << >>
S_var == << "x" >>
S_arith == << "2", "+", "3", "*", "4" >>
S_trailing == << "1", " ", "2" >>
S_lexerr == << "1", " ", "." >>
S_cond == << "x", " ", "?", " ", "5", " ", ":", " ", "u" >>

Sources == { S_empty, S_var, S_arith, S_trailing, S_lexerr, S_cond }

Empty == [n \in {} |-> 0]

HandleLocals == { Empty, [n \in {"x"} |-> 0], [n \in {"x"} |-> 2] }

\* The constant table the setup code registered before the handle is used.
HandleConstants == [n \in {"k"} |-> 3]

The(h) == [expr |-> h[1], ast |-> h[2], variables |-> h[3]]

\* No source text was given to tokenize().
NoLex == [ok |-> FALSE, tokens |-> << >>, err |-> << >>, at |-> 0]
NoSource == source = << >> /\ lexed = NoLex

\* No concurrent callers.
NoThreads == thread = << >> /\ eager = FALSE /\ raced = FALSE
\* No game.
NoClick == [at |-> "idle"]
NoGame == cfg = << >> /\ board = << >> /\ state = "unknown" /\ click = NoClick
NoLayout ==
    /\ children = << >>
    /\ l_bounds = << >>
    /\ evals = << >>
    /\ rebounds = 0
    /\ lex_count = << >>
NoExtra == NoThreads /\ NoGame /\ NoLayout

NoCheck ==
    /\ NoSource
    /\ NoExtra
    /\ tokens = << >>
    /\ parsed = ParseError(<< >>)
    /\ node = NullAst
    /\ locals = Empty
    /\ outcome = NoOutcome
    /\ phase = "handle"

Happened(op, d) ==
    [op |-> op, threw |-> d.threw, stage |-> d.stage, result |-> d.result,
     tokenized |-> d.tokenized, parsed |-> d.parsed]
Nothing(op) == [op |-> op, threw |-> FALSE, stage |-> "", result |-> NoOutcome,
                tokenized |-> 0, parsed |-> 0]

\* flux(std::string expr): a new handle.
Construct(src) ==
    /\ expr' = src
    /\ ast' = NullAst
    /\ variables' = Empty
    /\ tokenize_calls' = 0
    /\ parse_calls' = 0
    /\ evaluate_calls' = 0
    /\ evaluate_errors' = 0
    /\ touched' = FALSE
    /\ last' = Nothing("construct")
    /\ UNCHANGED << extra_vars, constants, check_vars >>

Init ==
    /\ expr \in Sources
    /\ ast = NullAst
    /\ variables = Empty
    /\ constants = HandleConstants
    /\ tokenize_calls = 0
    /\ parse_calls = 0
    /\ evaluate_calls = 0
    /\ evaluate_errors = 0
    /\ touched = FALSE
    /\ last = Nothing("construct")
    /\ NoCheck

\* The caller assigns the public member expr.
SetExpr(src) ==
    /\ src # expr
    /\ expr' = src
    /\ touched' = TRUE
    /\ last' = Nothing("set_expr")
    /\ UNCHANGED << extra_vars, ast, variables, constants, tokenize_calls, parse_calls,
                    evaluate_calls, evaluate_errors, check_vars >>

\* The caller overwrites the public member variables.
SetVariables(vs) ==
    /\ vs # variables
    /\ variables' = vs
    /\ last' = Nothing("set_variables")
    /\ UNCHANGED << extra_vars, expr, ast, constants, tokenize_calls, parse_calls,
                    evaluate_calls, evaluate_errors, touched, check_vars >>

\* The handle and the counters after a member function did d.
Record(op, d) ==
    /\ ast' = d.h.ast
    /\ tokenize_calls' = tokenize_calls + d.tokenized
    /\ parse_calls' = parse_calls + d.parsed
    /\ last' = Happened(op, d)

\* The caller calls refresh().
Refresh ==
    /\ tokenize_calls < MaxCalls
    /\ Record("refresh", flux_refresh(The(<<expr, ast, variables>>)))
    /\ touched' = TRUE
    /\ UNCHANGED << extra_vars, expr, variables, constants, evaluate_calls, evaluate_errors,
                    check_vars >>

\* The caller calls evaluate().
Evaluate ==
    /\ evaluate_calls < MaxCalls
    /\ tokenize_calls < MaxCalls
    /\ Record("evaluate", flux_evaluate(The(<<expr, ast, variables>>)))
    /\ evaluate_calls' = evaluate_calls + 1
    /\ evaluate_errors' = evaluate_errors + (IF last'.stage = "evaluate" THEN 1 ELSE 0)
    /\ UNCHANGED << extra_vars, expr, variables, constants, touched, check_vars >>

Next ==
    \/ \E src \in Sources : Construct(src)
    \/ \E src \in Sources : SetExpr(src)
    \/ \E vs \in HandleLocals : SetVariables(vs)
    \/ Refresh
    \/ Evaluate

Spec == Init /\ [][Next]_vars

----------------------------------------------------------------------------
(* Properties of the handle (specification Spec).                          *)

SourceParses(src) == tokenize(src).ok /\ parse(tokenize(src).tokens).ok
SourceAst(src) == parse(tokenize(src).tokens).node

\* C1: on a handle whose non-empty source lexes and parses, and on which no
\* refresh() was called and expr was not assigned since construction, once
\* evaluate() has been called tokenize() and parse() have each run exactly
\* once, both in the first evaluate(); the cache holds the parse of the
\* source, and every evaluate() returns (or throws) what walking that AST
\* with the current locals gives, also after an evaluate() that threw an
\* evaluation error.
C1_ParsedOnceThenCached ==
    (~touched /\ expr # << >> /\ SourceParses(expr) /\ evaluate_calls >= 1) =>
        /\ tokenize_calls = 1
        /\ parse_calls = 1
        /\ ast = SourceAst(expr)
        /\ last.op = "evaluate" =>
              /\ last.result = ast_evaluate(SourceAst(expr), variables)
              /\ last.tokenized = (IF evaluate_calls = 1 THEN 1 ELSE 0)
              /\ last.parsed = (IF evaluate_calls = 1 THEN 1 ELSE 0)

\* C1 witness: a later evaluate() returned a value from the cache, after an
\* earlier evaluate() of the same handle threw an evaluation error.
C1_Witness ==
    /\ ~touched
    /\ expr # << >>
    /\ evaluate_calls >= 2
    /\ evaluate_errors >= 1
    /\ last.op = "evaluate"
    /\ last.result.kind = "value"
    /\ last.tokenized = 0
    /\ tokenize_calls = 1

\* C2 as claimed: whenever refresh() has just returned normally, the cached
\* AST is absent or the parse of the current source, for every source, the
\* empty string included.
C2_RefreshDiscardsCache ==
    (last.op = "refresh" /\ ~last.threw) =>
        \/ ast = NullAst
        \/ SourceParses(expr) /\ ast = SourceAst(expr)

\* C2 amended: whenever refresh() has just returned normally on a non-empty
\* source, the cached AST is the parse of the current source; on an empty
\* source refresh() calls neither tokenize() nor parse() and leaves the cache
\* as it was.
C2_RefreshReparsesNonEmpty ==
    /\ [](  (last.op = "refresh" /\ ~last.threw /\ expr # << >>) =>
                (SourceParses(expr) /\ ast = SourceAst(expr)) )
    /\ [][ (last'.op = "refresh" /\ expr = << >>) =>
                (ast' = ast /\ ~last'.threw /\ last'.tokenized = 0 /\ last'.parsed = 0) ]_vars

\* C2 witness: refresh() replaced the AST of an earlier source by the parse
\* of the current one.
C2_Witness ==
    /\ last.op = "refresh"
    /\ ~last.threw
    /\ expr = S_arith
    /\ ast = SourceAst(S_arith)
    /\ evaluate_calls >= 1
    /\ tokenize_calls >= 2

\* C3: evaluate() on a handle whose source is the empty string returns 0.0
\* and calls neither tokenize() nor parse(), whatever the locals and the
\* cached AST are.
C3_EmptySourceIsZero ==
    (last.op = "evaluate" /\ expr = << >>) =>
        /\ ~last.threw
        /\ last.result.kind = "value"
        /\ last.result.v = 0
        /\ last.result.trace = << >>
        /\ last.tokenized = 0
        /\ last.parsed = 0

\* C3 witness: evaluate() on an empty source, with locals bound and with the
\* AST of an earlier source in the cache.
C3_Witness ==
    /\ last.op = "evaluate"
    /\ expr = << >>
    /\ ast # NullAst
    /\ variables # Empty
    /\ last.result.kind = "value"

----------------------------------------------------------------------------
(* The parser on its own: parse() applied to token sequences, and the      *)
(* evaluator applied to what it returns.                                    *)

\* Length of the token sequences enumerated over TokenAlphabet.
MaxTokens == 4

Num(c) == token("number", << c >>)
Ident(cs) == token("identifier", cs)
Op(cs) == token("operator", cs)
Punct(c) == token("punctuation", << c >>)

TokenAlphabet ==
    { Num("1"), Ident(<<"x">>), Ident(<<"m", "a", "x">>),
      Punct("("), Punct(")"), Punct(","),
      Op(<<"+">>), Op(<<"?">>), Op(<<":">>), Op(<<"!", "!">>) }

RECURSIVE SeqsUpTo(_, _)
\* All sequences over S of length at most n.
SeqsUpTo(S, n) ==
    IF n = 0 THEN { << >> }
    ELSE LET shorter == SeqsUpTo(S, n - 1)
         IN  shorter \cup { Append(q, x) : q \in shorter, x \in S }

\* The operator tokens the lexer makes of the operators of the precedence table.
TableOps ==
    { <<"&">>, <<"|">>, <<"^">>, <<"<", "<">>, <<">", ">">>, <<"+">>, <<"-">>,
      <<"*">>, <<"/">>, <<"%">>, <<"%", "%">>, <<"*", "*">>, <<"/", "/">>,
      <<"<", "?">>, <<">", "?">>, <<"=", "=">>, <<"!", "=">>, <<"<">>, <<">">>,
      <<"<", "=">>, <<">", "=">>, <<"!", "<">>, <<"!", ">">>, <<"!", "<", "=">>,
      <<"!", ">", "=">>, <<"&", "&">>, <<"|", "|">>, <<"=", ">">>, <<"?", "?">> }

\* The operands of the chains a p b q c.
ChainOperands == { <<"2", "3", "4">>, <<"1", "2", "2">> }

Chains ==
    { << Num(abc[1]), Op(p), Num(abc[2]), Op(q), Num(abc[3]) >> :
        abc \in ChainOperands, p \in TableOps, q \in TableOps }

\* c ? t : e over number tokens.
Ternary(c, t, e) == << Num(c), Op(<<"?">>), Num(t), Op(<<":">>), Num(e) >>
Ternaries == { Ternary(c, t, e) : c \in {"0", "1"}, t \in {"2"}, e \in {"3"} }

\* A conditional in each nested expr position of the grammar.
InParens == { << Punct("(") >> \o t \o << Punct(")") >> : t \in Ternaries }
InCall ==
    { << Ident(<<"a", "b", "s">>), Punct("(") >> \o t \o << Punct(")") >> : t \in Ternaries }
InSecondArg ==
    { << Ident(<<"m", "a", "x">>), Punct("("), Num("1"), Punct(",") >> \o t
        \o << Punct(")") >> : t \in Ternaries }
InThen ==
    { << Num(c), Op(<<"?">>) >> \o t \o << Op(<<":">>), Num("4") >> :
        c \in {"0", "1"}, t \in Ternaries }
InElse ==
    { << Num(c), Op(<<"?">>), Num("2"), Op(<<":">>) >> \o t :
        c \in {"0", "1"}, t \in Ternaries }
NestedTernaries == InParens \cup InCall \cup InSecondArg \cup InThen \cup InElse

\* An operator that is no prefix operator, in prefix position.
PrefixMisuse ==
    { << Op(<<"&", "&">>), Num("1") >>,
      << Num("1"), Op(<<"?">>), Num("2"), Op(<<":">>), Op(<<"&", "&">>), Num("3") >> }

TokenInputs ==
    SeqsUpTo(TokenAlphabet, MaxTokens) \cup Chains \cup Ternaries \cup NestedTernaries
        \cup PrefixMisuse

ParseLocals == [n \in {"x"} |-> 2]

NoHandle ==
    /\ expr = << >>
    /\ ast = NullAst
    /\ variables = Empty
    /\ tokenize_calls = 0
    /\ parse_calls = 0
    /\ evaluate_calls = 0
    /\ evaluate_errors = 0
    /\ touched = FALSE
    /\ last = Nothing("none")

ParseInit ==
    /\ NoHandle
    /\ NoExtra
    /\ constants = HandleConstants
    /\ NoSource
    /\ tokens \in TokenInputs
    /\ parsed = ParseError(<< >>)
    /\ node = NullAst
    /\ locals = ParseLocals
    /\ outcome = NoOutcome
    /\ phase = "tokens"

\* parse(tokens)
DoParse ==
    /\ phase = "tokens"
    /\ parsed' = parse(tokens)
    /\ phase' = "parsed"
    /\ UNCHANGED << extra_vars, handle_vars, constants, source, lexed, tokens, node, locals, outcome >>

\* The AST parse() returned is evaluated.
DoEvaluate ==
    /\ phase = "parsed"
    /\ parsed.ok
    /\ node' = parsed.node
    /\ outcome' = ast_evaluate(parsed.node, locals)
    /\ phase' = "evaluated"
    /\ UNCHANGED << extra_vars, handle_vars, constants, source, lexed, tokens, parsed, locals >>

ParseNext == DoParse \/ DoEvaluate

ParseSpec == ParseInit /\ [][ParseNext]_vars

----------------------------------------------------------------------------
(* The evaluator on its own: evaluate() applied to ASTs, after the setup   *)
(* code registered constants.                                               *)

\* Number of arguments of the function calls enumerated.
MaxArgs == 2

EvalAtoms ==
    { number_ast(0, TRUE), number_ast(2, TRUE),
      variable_ast("s"), variable_ast("S"), variable_ast("k"), variable_ast("u"),
      function_ast("g", << >>) }

EvalUnaryOps == unary_ops \cup {"&&"}
EvalBinaryOps == binary_ops \cup {"?"}
EvalFunctions == {"abs", "max", "min", "g"}

EvalNodes ==
    EvalAtoms
    \cup { operator_ast(op, << a >>) : op \in EvalUnaryOps, a \in EvalAtoms }
    \cup { operator_ast(op, << a, b >>) : op \in EvalBinaryOps, a \in EvalAtoms, b \in EvalAtoms }
    \cup { conditional_ast(c, a, b) : c \in EvalAtoms, a \in EvalAtoms, b \in EvalAtoms }
    \cup { function_ast(f, args) : f \in EvalFunctions, args \in SeqsUpTo(EvalAtoms, MaxArgs) }

EvalLocals ==
    { Empty, [n \in {"s"} |-> 0], [n \in {"s"} |-> 2], [n \in {"S"} |-> 2] }

ConstantNames == {"s", "k"}
ConstantValue == [n \in ConstantNames |-> IF n = "s" THEN 4 ELSE 3]

EvalInit ==
    /\ NoHandle
    /\ NoExtra
    /\ constants = Empty
    /\ NoSource
    /\ tokens = << >>
    /\ parsed = ParseError(<< >>)
    /\ node \in EvalNodes
    /\ locals \in EvalLocals
    /\ outcome = NoOutcome
    /\ phase = "setup"

\* The setup code: constants[name] = value.
RegisterConstant(name) ==
    /\ phase = "setup"
    /\ name \notin DOMAIN constants
    /\ constants' = [n \in DOMAIN constants \cup {name} |->
                        IF n = name THEN ConstantValue[n] ELSE constants[n]]
    /\ UNCHANGED << extra_vars, handle_vars, check_vars >>

\* What an evaluation that ran into undefined behaviour can do: end the
\* process, or go on with a float the model does not follow.
UndefinedOutcomes == {"crash", "untracked"}

\* The outcome r of an evaluation, undefined behaviour resolved as `ub`.
undefined_as(r, ub) == IF r.kind = "undefined" THEN [r EXCEPT !.kind = ub] ELSE r

\* node->evaluate(locals)
EvaluateNode ==
    /\ phase = "setup"
    /\ \E ub \in UndefinedOutcomes : outcome' = undefined_as(ast_evaluate(node, locals), ub)
    /\ phase' = "evaluated"
    /\ UNCHANGED << extra_vars, handle_vars, constants, source, lexed, tokens, parsed, node, locals >>

EvalNext ==
    \/ \E name \in ConstantNames : RegisterConstant(name)
    \/ EvaluateNode

EvalSpec == EvalInit /\ [][EvalNext]_vars

----------------------------------------------------------------------------
(* Properties of the evaluator (specification EvalSpec).                   *)

Evaluated(type) == phase = "evaluated" /\ node.type = type

\* Two outcomes that agree in everything but the trace.
SameResult(a, b) == a.kind = b.kind /\ a.v = b.v /\ a.err = b.err

\* C4: a Variable node gives the local bound to exactly its name when there
\* is one, else the constant registered under exactly its name, else it
\* throws the unknown-identifier error; names differing in case are
\* different names, and a local wins over a constant of the same name.
C4_VariableResolution ==
    Evaluated("variable") =>
        IF node.name \in DOMAIN locals
        THEN outcome.kind = "value" /\ outcome.v = locals[node.name]
        ELSE IF node.name \in DOMAIN constants
        THEN outcome.kind = "value" /\ outcome.v = constants[node.name]
        ELSE outcome.kind = "error" /\ outcome.err = <<"Invalid variable", node.name>>

\* C4 witness: a name bound both as a local and as a constant, with
\* different values, gave the local's value.
C4_Witness ==
    /\ Evaluated("variable")
    /\ node.name \in DOMAIN locals
    /\ node.name \in DOMAIN constants
    /\ locals[node.name] # constants[node.name]
    /\ outcome.v = locals[node.name]

\* C5: evaluating a Conditional evaluates the condition and then exactly one
\* branch, the then-branch when the condition is nonzero and the else-branch
\* otherwise: the result is that branch's and the trace is the condition's
\* followed by that branch's alone, so that nothing of the other branch, an
\* error it would throw included, shows.
C5_ConditionalOneBranch ==
    Evaluated("conditional") =>
        LET c == ast_evaluate(node.condition, locals)
            b == ast_evaluate(IF c.v # 0 THEN node.true ELSE node.false, locals)
        IN  /\ c.kind = "error" => outcome = c
            /\ c.kind = "value" =>
                  SameResult(outcome, b) /\ outcome.trace = c.trace \o b.trace

\* C5 witness: the branch not taken would have thrown, and a value came back.
C5_Witness ==
    /\ Evaluated("conditional")
    /\ ast_evaluate(node.condition, locals).kind = "value"
    /\ ast_evaluate(node.condition, locals).v # 0
    /\ ast_evaluate(node.false, locals).kind = "error"
    /\ outcome.kind = "value"

IsBinary == Evaluated("operator") /\ Len(node.operands) = 2

\* C6: evaluating a BinaryOp evaluates the left operand and then the right
\* one before the operator is applied, for every operator: when the left
\* operand returns, the trace is the left operand's, then the right
\* operand's, then (unless the right operand threw) the operator; an error
\* thrown by the right operand is the result whatever the left operand is.
C6_BinaryBothOperands ==
    IsBinary =>
        LET l == ast_evaluate(node.operands[1], locals)
            r == ast_evaluate(node.operands[2], locals)
        IN  /\ l.kind = "error" => outcome = l
            /\ (l.kind # "error" /\ r.kind = "error") =>
                  /\ outcome.kind = "error"
                  /\ outcome.err = r.err
                  /\ outcome.trace = l.trace \o r.trace
            /\ (l.kind # "error" /\ r.kind # "error") =>
                  outcome.trace = l.trace \o r.trace \o << <<"operator", node.op>> >>

\* C6 witness: 0 && undefined_name threw the unknown-identifier error.
C6_Witness ==
    /\ IsBinary
    /\ node.op = "&&"
    /\ node.operands[1] = number_ast(0, TRUE)
    /\ node.operands[2] = variable_ast("u")
    /\ outcome.kind = "error"
    /\ outcome.err = <<"Invalid variable", "u">>

RECURSIVE FirstFailing(_, _, _)
\* The index of the first argument from i on whose evaluation throws; 0: none.
FirstFailing(args, i, vs) ==
    IF i > Len(args) THEN 0
    ELSE IF ast_evaluate(args[i], vs).kind = "error" THEN i
    ELSE FirstFailing(args, i + 1, vs)

RECURSIVE ArgTraces(_, _, _, _)
\* The traces of the arguments i .. j, one after the other.
ArgTraces(args, i, j, vs) ==
    IF i > j THEN << >>
    ELSE ast_evaluate(args[i], vs).trace \o ArgTraces(args, i + 1, j, vs)

ArgValues(args, vs) ==
    [i \in 1..Len(args) |->
        [kind |-> ast_evaluate(args[i], vs).kind, v |-> ast_evaluate(args[i], vs).v]]

\* C7 as claimed: the arguments are evaluated before the name is looked up,
\* so that a call of an unregistered name with a failing argument throws the
\* argument's error.
C7_ArgumentsBeforeLookup ==
    (Evaluated("function") /\ node.name \notin function_names
        /\ FirstFailing(node.args, 1, locals) > 0) =>
        /\ outcome.kind = "error"
        /\ outcome.err = ast_evaluate(node.args[FirstFailing(node.args, 1, locals)], locals).err

\* C7 amended: evaluating Call(name, args) first looks name up in the
\* function table and throws the unknown-function error when it is not
\* registered, without evaluating any argument; for a registered name it
\* then evaluates the arguments left to right, stops at the first one that
\* throws and throws its error, and otherwise invokes the function with the
\* list of all the values.
C7_LookupBeforeArguments ==
    Evaluated("function") =>
        LET looked == << <<"lookup", node.name>> >>
            ff == FirstFailing(node.args, 1, locals)
            all == looked \o ArgTraces(node.args, 1, Len(node.args), locals)
                          \o << <<"invoke", node.name>> >>
        IN  IF node.name \notin function_names
            THEN outcome = Throw(<<"Invalid function", node.name>>, looked)
            ELSE IF ff > 0
            THEN /\ outcome.kind = "error"
                 /\ outcome.err = ast_evaluate(node.args[ff], locals).err
                 /\ outcome.trace = looked \o ArgTraces(node.args, 1, ff, locals)
            ELSE \E ub \in UndefinedOutcomes :
                    outcome = undefined_as(
                        call_function(node.name, ArgValues(node.args, locals), all), ub)

\* C7 witness: a call of an unregistered name whose argument would throw the
\* unknown-identifier error threw the unknown-function error.
C7_Witness ==
    /\ Evaluated("function")
    /\ node.name = "g"
    /\ Len(node.args) >= 1
    /\ ast_evaluate(node.args[1], locals).err = <<"Invalid variable", "u">>
    /\ outcome.err = <<"Invalid function", "g">>

----------------------------------------------------------------------------
(* Properties of the parser (specification ParseSpec).                     *)

WasParsed == phase \in {"parsed", "evaluated"}

PrecedenceLevel(op) ==
    CASE op \in {"&", "|", "^"} -> 0
      [] op \in {"<<", ">>"} -> 1
      [] op \in {"+", "-"} -> 2
      [] op \in {"*", "/"} -> 3
      [] op \in {"%", "%%"} -> 4
      [] op \in {"**", "//"} -> 5
      [] op \in {"<?", ">?"} -> 6
      [] op \in {"==", "!=", "<", ">", "<=", ">=", "!<", "!>", "!<=", "!>="} -> 7
      [] op \in {"&&", "||"} -> 8
      [] op = "=>" -> 9
      [] op = "??" -> 10

NumberNode(tok) == number_ast(digit_value[tok.value[1]], TRUE)

\* C9: the token sequence a p b q c, with p and q any two binary operators
\* of the precedence table, parses as p(a, q(b, c)) when q's level is higher
\* than p's and as q(p(a, b), c) when it is lower or the same; 2+3*4 is 14
\* and 1 + 2 == 2 is 1 + (2 == 2) = 2.
C9_PrecedenceClimbing ==
    (WasParsed /\ tokens \in Chains) =>
        LET p == Str(tokens[2].value)
            q == Str(tokens[4].value)
            a == NumberNode(tokens[1])
            b == NumberNode(tokens[3])
            c == NumberNode(tokens[5])
        IN  /\ parsed.ok
            /\ parsed.node =
                  IF PrecedenceLevel(q) > PrecedenceLevel(p)
                  THEN operator_ast(p, << a, operator_ast(q, << b, c >>) >>)
                  ELSE operator_ast(q, << operator_ast(p, << a, b >>), c >>)
            /\ (phase = "evaluated" /\ p = "+" /\ q = "*" /\ a.value = 2) =>
                  (outcome.kind = "value" /\ outcome.v = 14)
            /\ (phase = "evaluated" /\ p = "+" /\ q = "==" /\ a.value = 1) =>
                  (outcome.kind = "value" /\ outcome.v = 2)

\* C9 witness: 1 + 2 == 2 was parsed as 1 + (2 == 2) and evaluated to 2.
C9_Witness ==
    /\ phase = "evaluated"
    /\ tokens = << Num("1"), Op(<<"+">>), Num("2"), Op(<<"=", "=">>), Num("2") >>
    /\ node.op = "+"
    /\ node.operands[2].type = "operator"
    /\ outcome.v = 2

\* C10 as claimed: a conditional is accepted in every nested expr position:
\* in either branch of a conditional, inside parentheses and as a function
\* call argument.
C10_NestedExprAcceptsTernary ==
    (WasParsed /\ tokens \in NestedTernaries) => parsed.ok

----------------------------------------------------------------------------
(* Source text: tokenize() applied to character sequences, parse() to the  *)
(* tokens it returns and the evaluator to the AST.                          *)

\* Length of the source texts enumerated over SourceAlphabet.
MaxChars == 4

SourceAlphabet == {"1", "(", ")", "!", "=", "-", " ", "."}

\* The operands of the sources l !! r.
Digits == {"0", "1", "3", "7"}

\* l !! r, with and without whitespace around the operator.
AbsDiffSources ==
    { << l >> \o sp \o << "!", "!" >> \o sp \o << r >> :
        l \in Digits, r \in Digits, sp \in { << >>, << " " >> } }

\* Adjacent punctuation, runs of operator characters, a call.
RunSources ==
    { << "(", "(" >>, << "<", "=" >>, << "!", ">", "=" >>, << "*", "-" >>,
      << "2", "*", "-", "3" >>, << "2", " ", "*", " ", "-", "3" >>,
      << "1", "<", "=", "2" >>, << "(", "(", "1", ")", ")" >>,
      << "m", "a", "x", "(", "1", ",", "2", ")" >>,
      << "\t", "1", "\n", "+", " ", " ", "x", "\r" >>,
      << ")", "(", ",", ";", "{", "}" >>, << "1", " ", "<", " ", "=", " ", "2" >> }

SourceInputs == SeqsUpTo(SourceAlphabet, MaxChars) \cup AbsDiffSources \cup RunSources

SourceInit ==
    /\ NoHandle
    /\ NoExtra
    /\ constants = HandleConstants
    /\ source \in SourceInputs
    /\ lexed = NoLex
    /\ tokens = << >>
    /\ parsed = ParseError(<< >>)
    /\ node = NullAst
    /\ locals = ParseLocals
    /\ outcome = NoOutcome
    /\ phase = "source"

\* tokenize(source)
DoTokenize ==
    /\ phase = "source"
    /\ lexed' = tokenize(source)
    /\ tokens' = lexed'.tokens
    /\ phase' = IF lexed'.ok THEN "tokens" ELSE "lex error"
    /\ UNCHANGED << extra_vars, handle_vars, constants, source, parsed, node, locals, outcome >>

SourceNext == DoTokenize \/ DoParse \/ DoEvaluate

SourceSpec == SourceInit /\ [][SourceNext]_vars

----------------------------------------------------------------------------
(* Properties of source text (specification SourceSpec).                   *)

\* The number a one-digit literal denotes.
DigitOf(c) == digit_value[c]

\* C11 as claimed: every source l !! r lexes, parses to the BinaryOp node of
\* !! over the two literals and evaluates to |l - r|.
C11_AbsDiffUsable ==
    source \in AbsDiffSources =>
        /\ phase # "lex error"
        /\ phase \in {"parsed", "evaluated"} =>
              /\ parsed.ok
              /\ parsed.node =
                    operator_ast("!!", << number_ast(DigitOf(source[1]), TRUE),
                                          number_ast(DigitOf(source[Len(source)]), TRUE) >>)
        /\ phase = "evaluated" =>
              /\ outcome.kind = "value"
              /\ outcome.v = Abs(DigitOf(source[1]) - DigitOf(source[Len(source)]))

----------------------------------------------------------------------------
(* Properties of the parser and the evaluator together (ParseSpec).        *)

RECURSIVE OperatorsImplemented(_)
\* Every operator node of the AST n carries an operator the evaluator
\* implements for its number of operands.
OperatorsImplemented(n) ==
    CASE n.type = "operator" ->
            /\ IF Len(n.operands) = 1 THEN n.op \in unary_ops ELSE n.op \in binary_ops
            /\ \A i \in 1..Len(n.operands) : OperatorsImplemented(n.operands[i])
      [] n.type = "function" ->
            \A i \in 1..Len(n.args) : OperatorsImplemented(n.args[i])
      [] n.type = "conditional" ->
            /\ OperatorsImplemented(n.condition)
            /\ OperatorsImplemented(n.true)
            /\ OperatorsImplemented(n.false)
      [] OTHER -> TRUE

InvalidOperatorErrors == {"Invalid unary operator", "Invalid binary operator"}

\* C12 as claimed: an AST that parse() returned has only implemented
\* operators in its nodes, and its evaluation never throws an
\* invalid-operator error.
C12_OperatorsRejectedByParser ==
    /\ (WasParsed /\ parsed.ok) => OperatorsImplemented(parsed.node)
    /\ (phase = "evaluated" /\ outcome.kind = "error") =>
            outcome.err[1] \notin InvalidOperatorErrors

----------------------------------------------------------------------------
(* The remainder operators on a range of operands: l % m and l %% m        *)
(* evaluated with l and m bound as locals.                                  *)

\* The operands l and m range over -MaxOperand .. MaxOperand.
MaxOperand == 12

ArithOps == {"%", "%%"}
ArithNodes == { operator_ast(op, << variable_ast("l"), variable_ast("m") >>) : op \in ArithOps }
ArithLocals == [{"l", "m"} -> -MaxOperand..MaxOperand]

ArithInit ==
    /\ NoHandle
    /\ NoExtra
    /\ constants = Empty
    /\ NoSource
    /\ tokens = << >>
    /\ parsed = ParseError(<< >>)
    /\ node \in ArithNodes
    /\ locals \in ArithLocals
    /\ outcome = NoOutcome
    /\ phase = "setup"

ArithNext == EvaluateNode

ArithSpec == ArithInit /\ [][ArithNext]_vars

\* C13: for m > 0, l %% m is in [0, m) and congruent to l modulo m, and
\* l % m is the remainder of the truncating division: smaller than m in
\* magnitude, congruent to l modulo m, and of the sign of l.
C13_RemainderOperators ==
    (phase = "evaluated" /\ node \in ArithNodes /\ locals["m"] > 0) =>
        LET l == locals["l"]
            m == locals["m"]
        IN  /\ outcome.kind = "value"
            /\ (l - outcome.v) % m = 0
            /\ node.op = "%%" => (0 <= outcome.v /\ outcome.v < m)
            /\ node.op = "%" =>
                  /\ Abs(outcome.v) < m
                  /\ l >= 0 => outcome.v >= 0
                  /\ l <= 0 => outcome.v <= 0
            /\ (l = -10 /\ m = 3) => outcome.v = (IF node.op = "%" THEN -1 ELSE 2)

\* C13 witness: -10 %% 3 was evaluated and gave 2.
C13_Witness ==
    /\ phase = "evaluated"
    /\ node.op = "%%"
    /\ locals["l"] = -10
    /\ locals["m"] = 3
    /\ outcome.v = 2

----------------------------------------------------------------------------
(* Properties of the built-in functions (specification EvalSpec).          *)

\* The number of parameters each built-in documents: abs (x), max (x, y),
\* min (x, y).
DocumentedArity == [f \in function_names |-> IF f = "abs" THEN 1 ELSE 2]

\* No argument of the call node n throws.
ArgumentsEvaluate(n) ==
    \A i \in 1..Len(n.args) : ast_evaluate(n.args[i], locals).kind # "error"

\* C14 as claimed: a built-in called with a number of arguments other than
\* the documented one throws its arity error and returns no value.
C14_BuiltinsCheckArity ==
    (/\ Evaluated("function")
     /\ node.name \in function_names
     /\ Len(node.args) # DocumentedArity[node.name]
     /\ ArgumentsEvaluate(node)) =>
        /\ outcome.kind = "error"
        /\ outcome.err = <<"Invalid parameters for", node.name>>

----------------------------------------------------------------------------
(* Properties of the lexer (specification SourceSpec).                     *)

WasLexed == phase \in {"tokens", "parsed", "evaluated"}

RECURSIVE Flatten(_)
\* The characters of the tokens, one token after the other.
Flatten(toks) == IF toks = << >> THEN << >> ELSE Head(toks).value \o Flatten(Tail(toks))

\* The positions of the source at which a maximal run of characters of
\* `set` starts.
RunStarts(set) ==
    { i \in 1..Len(source) : source[i] \in set /\ (i = 1 \/ source[i - 1] \notin set) }

TokensOfType(type) == { i \in 1..Len(tokens) : tokens[i].type = type }

\* C15: the tokens are the source in order without its whitespace; every
\* punctuation character is a token of its own, adjacent or not; every
\* maximal run of operator characters is one operator token.
C15_PunctuationAndOperatorRuns ==
    WasLexed =>
        /\ Flatten(tokens) = SelectSeq(source, LAMBDA c : c \notin space_chars)
        /\ \A i \in TokensOfType("punctuation") :
              Len(tokens[i].value) = 1 /\ tokens[i].value[1] \in punct_chars
        /\ Cardinality(TokensOfType("punctuation")) =
              Cardinality({ i \in 1..Len(source) : source[i] \in punct_chars })
        /\ \A i \in TokensOfType("operator") :
              \A j \in 1..Len(tokens[i].value) : tokens[i].value[j] \in op_chars
        /\ Cardinality(TokensOfType("operator")) = Cardinality(RunStarts(op_chars))
        /\ source = << "(", "(" >> => tokens = << Punct("("), Punct("(") >>
        /\ source = << "<", "=" >> => tokens = << Op(<< "<", "=" >>) >>
        /\ source = << "!", ">", "=" >> => tokens = << Op(<< "!", ">", "=" >>) >>
        /\ source = << "*", "-" >> => tokens = << Op(<< "*", "-" >>) >>

\* C15 witness: two adjacent punctuation characters and a run of two
\* operator characters were lexed into three tokens.
C15_Witness ==
    /\ WasLexed
    /\ source = << "(", "(", "!", "=" >>
    /\ tokens = << Punct("("), Punct("("), Op(<< "!", "=" >>) >>

----------------------------------------------------------------------------
(* Concurrent callers: threads that call evaluate() on one shared handle.  *)
(* Each action is one access of evaluate() or refresh() to the handle:     *)
(* the read of expr, the read of ast in `!ast`, the tokenize and parse of  *)
(* refresh() (which read expr and work on locals), the write of ast, and   *)
(* ast->evaluate(variables), which reads ast, variables and the registry.  *)
(* The owner may call refresh() before it shares the handle.               *)

\* Number of threads that call evaluate() on the shared handle.
NumThreads == 2

Threads == 1..NumThreads

Idle == [pc |-> "idle", saw_null |-> FALSE, tmp |-> NullAst, parsed |-> FALSE,
         wrote |-> FALSE, result |-> NoOutcome]

ThreadSources == { S_empty, S_var, S_arith, S_trailing, S_cond }

ThreadInit ==
    /\ expr \in ThreadSources
    /\ ast = NullAst
    /\ variables \in HandleLocals
    /\ constants = HandleConstants
    /\ tokenize_calls = 0
    /\ parse_calls = 0
    /\ evaluate_calls = 0
    /\ evaluate_errors = 0
    /\ touched = FALSE
    /\ last = Nothing("construct")
    /\ NoSource
    /\ NoGame
    /\ NoLayout
    /\ tokens = << >>
    /\ parsed = ParseError(<< >>)
    /\ node = NullAst
    /\ locals = Empty
    /\ outcome = NoOutcome
    /\ phase = "private"
    /\ thread = [t \in Threads |-> Idle]
    /\ eager = FALSE
    /\ raced = FALSE

\* The next access of a thread at pc is to ast, and it is a write.
WritesAst(pc) == pc = "store"
\* The next access of a thread at pc is to ast.
AccessesAst(pc) == pc \in {"check", "store", "evaluate"}

\* Two threads are about to access ast, one of them to write it, with
\* nothing that orders the two accesses.
Race ==
    \E a \in Threads : \E b \in Threads \ {a} :
        WritesAst(thread[a].pc) /\ AccessesAst(thread[b].pc)

\* refresh() called by the owner returned or threw d.
OwnerRefreshed(d) ==
    /\ ast' = d.h.ast
    /\ tokenize_calls' = tokenize_calls + d.tokenized
    /\ parse_calls' = parse_calls + d.parsed
    /\ last' = Happened("refresh", d)

\* The owner calls refresh() on the handle before it shares it.
RefreshBeforeSharing ==
    /\ phase = "private"
    /\ ~eager
    /\ eager' = TRUE
    /\ OwnerRefreshed(flux_refresh(The(<< expr, ast, variables >>)))
    /\ touched' = TRUE
    /\ UNCHANGED << game_vars, layout_vars, expr, variables, constants, evaluate_calls, evaluate_errors,
                    check_vars, thread, raced >>

\* The handle is handed to the threads.
Share ==
    /\ phase = "private"
    /\ phase' = "shared"
    /\ UNCHANGED << game_vars, layout_vars, handle_vars, constants, source, lexed, tokens, parsed, node,
                    locals, outcome, thread_vars >>

\* A step of thread t that touches nothing but the thread itself.
ThreadStep(t, next) ==
    /\ thread' = [thread EXCEPT ![t] = next]
    /\ raced' = (raced \/ Race)
    /\ UNCHANGED << game_vars, layout_vars, handle_vars, constants, check_vars, eager >>

\* evaluate(), `if (expr == "") return 0.0f;`
ReadExpr(t) ==
    /\ phase = "shared"
    /\ thread[t].pc = "idle"
    /\ ThreadStep(t, IF expr = << >>
                     THEN [thread[t] EXCEPT !.pc = "done", !.result = Value(0, << >>)]
                     ELSE [thread[t] EXCEPT !.pc = "check"])

\* evaluate(), `if (!ast)`
CheckAst(t) ==
    /\ thread[t].pc = "check"
    /\ ThreadStep(t, IF needs_refresh(The(<< expr, ast, variables >>))
                     THEN [thread[t] EXCEPT !.pc = "refresh", !.saw_null = TRUE]
                     ELSE [thread[t] EXCEPT !.pc = "evaluate"])

\* refresh() run by thread t as far as its locals go: d is what tokenize and
\* parse gave.  An exception ends the call; otherwise the AST waits in a
\* temporary for the assignment to ast.
ThreadParsed(t, d) ==
    /\ thread' = [thread EXCEPT ![t] =
                    IF d.threw
                    THEN [@ EXCEPT !.pc = "done", !.result = d.result]
                    ELSE [@ EXCEPT !.pc = "store", !.tmp = d.h.ast, !.parsed = TRUE]]
    /\ tokenize_calls' = tokenize_calls + d.tokenized
    /\ parse_calls' = parse_calls + d.parsed

\* refresh(), `auto tokens = tokenize(expr);` and `parse(tokens)`
ParseLocally(t) ==
    /\ thread[t].pc = "refresh"
    /\ ThreadParsed(t, flux_refresh(The(<< expr, NullAst, variables >>)))
    /\ raced' = (raced \/ Race)
    /\ UNCHANGED << game_vars, layout_vars, expr, ast, variables, constants, evaluate_calls, evaluate_errors,
                    touched, last, check_vars, eager >>

\* refresh(), `ast = ...`: the write of the cache.
StoreAst(t) ==
    /\ thread[t].pc = "store"
    /\ ast' = thread[t].tmp
    /\ thread' = [thread EXCEPT ![t] = [@ EXCEPT !.pc = "evaluate", !.wrote = TRUE]]
    /\ raced' = (raced \/ Race)
    /\ UNCHANGED << game_vars, layout_vars, expr, variables, constants, tokenize_calls, parse_calls,
                    evaluate_calls, evaluate_errors, touched, last, check_vars, eager >>

\* What a call can return after a data race: what it would have returned,
\* or nothing, the process having crashed.
RaceOutcomes(r) == { r, [kind |-> "crash", v |-> 0, err |-> << >>, trace |-> << >>] }

\* evaluate(), `return ast->evaluate(variables);`
EvaluateAst(t) ==
    /\ thread[t].pc = "evaluate"
    /\ \E r \in (IF raced \/ Race
                 THEN RaceOutcomes(ast_evaluate(ast, variables))
                 ELSE { ast_evaluate(ast, variables) }) :
            ThreadStep(t, [thread[t] EXCEPT !.pc = "done", !.result = r])

ThreadNext ==
    \/ RefreshBeforeSharing
    \/ Share
    \/ \E t \in Threads :
          ReadExpr(t) \/ CheckAst(t) \/ ParseLocally(t) \/ StoreAst(t) \/ EvaluateAst(t)

ThreadSpec == ThreadInit /\ [][ThreadNext]_vars

----------------------------------------------------------------------------
(* Properties of concurrent callers (specification ThreadSpec).            *)

\* What evaluate() called on the handle as it is now, by one thread alone,
\* returns or throws.
SequentialResult == flux_evaluate(The(<< expr, ast, variables >>)).result

\* With the handle refreshed before it was shared: no thread is at, or has
\* made, a write of the handle, no two accesses conflict, and a call that
\* ended gave the sequential result.
EagerIsRaceFree ==
    (phase = "shared" /\ eager) =>
        /\ ~raced /\ ~Race
        /\ \A t \in Threads :
              /\ ~thread[t].wrote
              /\ thread[t].pc # "store"
              /\ thread[t].pc = "done" => SameResult(thread[t].result, SequentialResult)

\* Without it: every thread that read ast as null goes on to parse and,
\* unless the parse throws, to write the cache.
LazyFirstUseWrites ==
    ~eager =>
        \A t \in Threads :
            (thread[t].saw_null /\ thread[t].pc \in {"evaluate", "done"}
                /\ SourceParses(expr)) =>
                (thread[t].parsed /\ thread[t].wrote)

\* C16: once refresh() has run on a handle before it is shared, evaluate()
\* writes neither the handle nor the registry, so that concurrent calls are
\* race-free and return what a sequential call returns; without it, the
\* threads that find the cache empty each parse and each write the cache.
C16_EagerRefreshIsRaceFree ==
    /\ [](EagerIsRaceFree /\ LazyFirstUseWrites)
    /\ [][(phase = "shared" /\ eager) =>
            UNCHANGED << expr, ast, variables, constants >>]_vars

\* C16 witness: on a refreshed handle one thread has returned a value while
\* the other is about to evaluate the cached AST.
C16_Witness ==
    /\ phase = "shared"
    /\ eager
    /\ expr = S_cond
    /\ thread[1].pc = "done"
    /\ thread[1].result.kind = "value"
    /\ thread[2].pc = "evaluate"

\* Without the refresh: both threads parsed, both wrote the cache, and the
\* accesses raced.
LazyBothWrote ==
    /\ ~eager
    /\ raced
    /\ \A t \in Threads : thread[t].parsed /\ thread[t].wrote

-----------------------------------------------------------------------------
(* The minesweeper game (minesweeper.hpp, minesweeper.cpp).                *)
(*                                                                         *)
(* A cell is a pair << x, y >>; the board maps the cells to records        *)
(* [is_mine, n_mines, state].  A primary click on a game that has not      *)
(* started runs generate_board, whose loops are taken one iteration at a   *)
(* time (the solver's deduction loop need not end): `click` holds the      *)
(* position in it, and the board as it was when the button was pressed.    *)
(* The random draws of generate_mines are nondeterministic choices.        *)
(***************************************************************************)

\* The board of the modelled games, and the largest configuration values.
Width == 4
Height == 3
MaxMines == 2
MaxAttempts == 2
\* The player keeps at most this many cells marked at a time.
MaxMarks == 1

\* config::validate()
validate(c) ==
    /\ ~(c.width < 1 \/ c.height < 1)
    /\ ~(c.mines > c.width * c.height - 9)
    /\ ~(c.max_generation_attempts < 1)

Configs == { c \in [width : {Width}, height : {Height}, mines : 0..MaxMines,
                    max_generation_attempts : {MaxAttempts}] : validate(c) }

Cells == (0..(cfg.width - 1)) \X (0..(cfg.height - 1))

\* minesweeper::n_cells: the in-board neighbours of a cell.
n_cells(c) ==
    { d \in Cells : /\ d # c
                    /\ d[1] - c[1] \in -1..1
                    /\ d[2] - c[2] \in -1..1 }

\* minesweeper::reset_board_state
reset_board_state(b) == [c \in DOMAIN b |-> [b[c] EXCEPT !.state = "hidden"]]

\* minesweeper::reset_board: every cell is cell {}, then hidden.
reset_board == [c \in Cells |-> [is_mine |-> FALSE, n_mines |-> 0, state |-> "hidden"]]

\* minesweeper::compute_neighbor_mines
compute_neighbor_mines(b) ==
    [c \in DOMAIN b |->
        [b[c] EXCEPT !.n_mines = Cardinality({ d \in n_cells(c) : b[d].is_mine })]]

\* minesweeper::check_win
check_win(b) == \A c \in DOMAIN b : b[c].is_mine \/ b[c].state = "revealed"

\* minesweeper::reveal, the flood fill.  The queue of the code is taken a
\* wave at a time: a cell is revealed when it is hidden and was pushed,
\* and only a revealed cell without neighbouring mines pushes its hidden
\* neighbours, so the cells revealed do not depend on the queue's order.
flood_next(b, seen, frontier) ==
    { d \in Cells \ seen :
        /\ b[d].state = "hidden"
        /\ \E e \in frontier : b[e].n_mines = 0 /\ d \in n_cells(e) }

RECURSIVE flood(_, _, _)
flood_more(b, seen, next) ==
    IF next = {} THEN seen ELSE flood(b, seen \cup next, next)
flood(b, seen, frontier) == flood_more(b, seen, flood_next(b, seen, frontier))

reveal_cells(b, cs) ==
    [c \in DOMAIN b |-> IF c \in cs THEN [b[c] EXCEPT !.state = "revealed"] ELSE b[c]]

reveal_from(b, from) == reveal_cells(b, flood(b, from, from))

\* reveal() called on each cell of cs in turn: a call on a cell that is not
\* hidden (any more) does nothing.
reveal_each(b, cs) == reveal_from(b, { c \in cs : b[c].state = "hidden" })

reveal(b, c) == reveal_each(b, {c})

\* The two lists that speed_reveal and logically_solvable build: `hidden`
\* holds every neighbour that is not revealed, the flagged ones included.
flagged_cells(b, c) == { d \in n_cells(c) : b[d].state = "flagged" }
hidden_cells(b, c) == { d \in n_cells(c) : b[d].state # "revealed" }

\* minesweeper::speed_reveal
speed_reveal(b, c) ==
    IF Cardinality(flagged_cells(b, c)) = b[c].n_mines
    THEN reveal_each(b, hidden_cells(b, c))
    ELSE b

toggled_without_q_mark(s) == CASE s = "hidden" -> "flagged"
                               [] s = "flagged" -> "hidden"
                               [] s = "q_marked" -> "hidden"
                               [] OTHER -> s

\* minesweeper::toggle
toggled(s) == CASE s = "hidden" -> "flagged"
                [] s = "flagged" -> "q_marked"
                [] s = "q_marked" -> "hidden"
                [] OTHER -> s

toggle(b, c) == [b EXCEPT ![c].state = toggled(@)]

toggle_each(b, cs) ==
    [c \in DOMAIN b |-> IF c \in cs THEN [b[c] EXCEPT !.state = toggled(@)] ELSE b[c]]

\* logically_solvable, the two rules applied to one revealed cell: f and h
\* are its lists, built before either rule runs, n its number.
rule_1(b, f, h, n) == IF Cardinality(f) = n THEN reveal_each(b, h) ELSE b
rule_2(b, f, h, n) == IF Cardinality(f) + Cardinality(h) = n THEN toggle_each(b, h) ELSE b
rules_progress(f, h, n) ==
    h # {} /\ (Cardinality(f) = n \/ Cardinality(f) + Cardinality(h) = n)

apply_rules(sv, f, h, n) ==
    [board |-> rule_2(rule_1(sv.board, f, h, n), f, h, n),
     progress |-> sv.progress \/ rules_progress(f, h, n)]

solve_cell(sv, c) ==
    IF sv.board[c].state # "revealed" THEN sv
    ELSE apply_rules(sv, flagged_cells(sv.board, c), hidden_cells(sv.board, c),
                     sv.board[c].n_mines)

\* The k-th cell of `for x ... for y ...`.
scan_cell(k) == << k \div cfg.height, k % cfg.height >>

RECURSIVE solver_scan(_, _)
solver_scan(sv, k) ==
    IF k >= cfg.width * cfg.height THEN sv
    ELSE solver_scan(solve_cell(sv, scan_cell(k)), k + 1)

\* One iteration of `while (progress)`.
solver_pass(b) == solver_scan([board |-> b, progress |-> FALSE], 0)

\* minesweeper::mines_left: flagged_count is counted up over the cells,
\* from the k-th cell of the scan on.
RECURSIVE flagged_count(_, _)
flagged_count(b, k) ==
    IF k >= cfg.width * cfg.height THEN 0
    ELSE (IF b[scan_cell(k)].state = "flagged" THEN 1 ELSE 0) + flagged_count(b, k + 1)

RECURSIVE marked_count(_, _)
marked_count(b, k) ==
    IF k >= cfg.width * cfg.height THEN 0
    ELSE (IF b[scan_cell(k)].state \in {"flagged", "q_marked"} THEN 1 ELSE 0)
         + marked_count(b, k + 1)

mines_left_counting_marks(b) == cfg.mines - marked_count(b, 0)
mines_left(b) == cfg.mines - flagged_count(b, 0)

Marks == {"flagged", "q_marked"}

\* The flux state machines are at rest while a game is played.
NoFlux ==
    /\ NoHandle
    /\ constants = HandleConstants
    /\ NoSource
    /\ NoThreads
    /\ NoLayout
    /\ tokens = << >>
    /\ parsed = ParseError(<< >>)
    /\ node = NullAst
    /\ locals = Empty
    /\ outcome = NoOutcome
    /\ phase = "handle"

flux_vars == << handle_vars, constants, check_vars, thread_vars, layout_vars >>

\* minesweeper(config cfg): validate(), then reset().
GameInit ==
    /\ NoFlux
    /\ cfg \in Configs
    /\ board = reset_board
    /\ state = "not_started"
    /\ click = NoClick

\* minesweeper::speed_toggle: the coordinates are checked, nothing else.
speed_toggle(b, c) == b

\* The board that on_secondary_click(x, y) leaves.
secondary_click(b, c) ==
    IF b[c].state # "revealed" THEN toggle(b, c) ELSE speed_toggle(b, c)

\* on_secondary_click(x, y)
on_secondary_click(c) ==
    /\ click.at = "idle"
    /\ board' = secondary_click(board, c)
    /\ Cardinality({ d \in Cells : board'[d].state \in Marks }) <= MaxMarks
    /\ UNCHANGED << flux_vars, cfg, state, click >>

\* on_primary_click(x, y), the first click: generate_board is entered.
FirstClick(c) ==
    /\ click.at = "idle"
    /\ state = "not_started"
    /\ click' = [at |-> "attempt", start |-> c, i |-> 0, j |-> 0, progress |-> FALSE,
                 result |-> FALSE, before |-> board]
    /\ UNCHANGED << flux_vars, cfg, board, state >>

\* generate_board, `forb`.
forbidden_start_only(c) == {c}
Forbidden(c) == {c} \cup n_cells(c)

\* generate_board, the head of `for (i ...)`: reset_board().
GenerateAttempt ==
    /\ click.at = "attempt"
    /\ click.i < cfg.max_generation_attempts
    /\ board' = reset_board
    /\ click' = [click EXCEPT !.at = "mines", !.j = 0]
    /\ UNCHANGED << flux_vars, cfg, state >>

\* generate_mines, one iteration of `for (j ...)`: the do-while draws
\* until the cell is not forbidden, and the cell becomes a mine.
generate_mines ==
    /\ click.at = "mines"
    /\ click.j < cfg.mines
    /\ \E c \in Cells \ Forbidden(click.start) :
         board' = [board EXCEPT ![c].is_mine = TRUE]
    /\ click' = [click EXCEPT !.j = @ + 1]
    /\ UNCHANGED << flux_vars, cfg, state >>

\* compute_neighbor_mines(), then logically_solvable up to its loop.
StartSolver ==
    /\ click.at = "mines"
    /\ click.j >= cfg.mines
    /\ board' = reveal(compute_neighbor_mines(board), click.start)
    /\ click' = [click EXCEPT !.at = "solve", !.progress = TRUE]
    /\ UNCHANGED << flux_vars, cfg, state >>

\* logically_solvable, one iteration of `while (progress)`.
SolverPass ==
    /\ click.at = "solve"
    /\ click.progress
    /\ \E sv \in {solver_pass(board)} :
         /\ board' = sv.board
         /\ click' = [click EXCEPT !.progress = sv.progress]
    /\ UNCHANGED << flux_vars, cfg, state >>

\* logically_solvable after its loop, and generate_board's `break` or i++.
SolverDone ==
    /\ click.at = "solve"
    /\ ~click.progress
    /\ board' = reset_board_state(board)
    /\ click' = [click EXCEPT
                   !.result = check_win(board),
                   !.i = IF check_win(board) THEN @ ELSE @ + 1,
                   !.at = IF check_win(board) \/ click.i + 1 >= cfg.max_generation_attempts
                          THEN "reveal" ELSE "attempt"]
    /\ UNCHANGED << flux_vars, cfg, state >>

\* on_primary_click after generate_board: reveal(x, y); state = playing.
FinishFirstClick ==
    /\ click.at = "reveal"
    /\ board' = reveal(board, click.start)
    /\ state' = "playing"
    /\ click' = [click EXCEPT !.at = "idle", !.before = << >>]
    /\ UNCHANGED << flux_vars, cfg >>

won_if(b) == IF check_win(b) THEN "won" ELSE "playing"

\* on_primary_click(x, y) while playing.
PlayClick(c) ==
    /\ click.at = "idle"
    /\ state = "playing"
    /\ IF board[c].state \in Marks
       THEN UNCHANGED << board, state >>
       ELSE IF board[c].is_mine
       THEN /\ board' = [board EXCEPT ![c].state = "revealed"]
            /\ state' = "lost"
       ELSE /\ board' = IF board[c].state # "revealed" THEN reveal(board, c)
                        ELSE IF board[c].n_mines > 0 THEN speed_reveal(board, c)
                        ELSE board
            /\ state' = won_if(board')
    /\ UNCHANGED << flux_vars, cfg, click >>

\* on_primary_click(x, y) after the game ended.
IgnoredClick(c) ==
    /\ click.at = "idle"
    /\ state \notin {"not_started", "playing"}
    /\ UNCHANGED vars

on_primary_click(c) == FirstClick(c) \/ PlayClick(c) \/ IgnoredClick(c)

GameNext ==
    \/ \E c \in Cells : on_primary_click(c)
    \/ \E c \in Cells : on_secondary_click(c)
    \/ GenerateAttempt
    \/ generate_mines
    \/ StartSolver
    \/ SolverPass
    \/ SolverDone
    \/ FinishFirstClick

GameSpec == GameInit /\ [][GameNext]_vars

-----------------------------------------------------------------------------
(* Board generation.                                                       *)
(***************************************************************************)

Started == state \in {"playing", "won", "lost"}
MineCells == { c \in Cells : board[c].is_mine }

\* C17: after the first primary click at (x, y) on a game that had not
\* started, neither (x, y) nor any of its in-board neighbours is a mine.
C17_StartAreaHasNoMine ==
    Started => \A c \in {click.start} \cup n_cells(click.start) : ~board[c].is_mine

\* A first click on an inner cell (eight neighbours) has returned, and the
\* board has mines.
C17_Witness ==
    /\ state = "playing"
    /\ Cardinality(n_cells(click.start)) = 8
    /\ MineCells # {}

\* C18: after board generation (the first primary click of a game) the
\* number of cells with is_mine set is exactly cfg.mines.
C18_MineCountIsConfigured == Started => Cardinality(MineCells) = cfg.mines

-----------------------------------------------------------------------------
(* Marks and primary clicks.                                               *)
(***************************************************************************)

\* The cells of board b that kept the mark they have in board a.
MarksKept(a, b) == \A c \in DOMAIN a : a[c].state \in Marks => b[c].state = a[c].state

\* C19: a primary click, the first click of the game included, never
\* reveals a cell that is flagged or question-marked when the button is
\* pressed, and leaves its mark in place.
C19_MarksProtectFromPrimaryClicks ==
    [][/\ FinishFirstClick => MarksKept(click.before, board')
       /\ \A d \in Cells : PlayClick(d) => MarksKept(board, board')]_vars

\* The same for the clicks of a game in progress alone.
MarksProtectWhilePlaying ==
    [][\A d \in Cells : PlayClick(d) => MarksKept(board, board')]_vars

-----------------------------------------------------------------------------
(* Speed reveal.                                                           *)
(***************************************************************************)

\* The cells on which a primary click is a speed reveal: PlayClick(c) on
\* one of them makes the board speed_reveal(board, c).
SpeedRevealCells ==
    IF state = "playing" /\ click.at = "idle"
    THEN { c \in Cells : /\ board[c].state = "revealed"
                         /\ ~board[c].is_mine
                         /\ board[c].n_mines > 0 }
    ELSE {}

\* The adjacent hidden cells without a flag.
HiddenUnflagged(c) == { d \in n_cells(c) : board[d].state = "hidden" }

\* C20: a primary click on a revealed cell with number n > 0 reveals the
\* adjacent hidden cells without a flag exactly when the number of adjacent
\* hidden cells without a flag equals n, and reveals nothing otherwise.
C20_SpeedRevealWhenHiddenCountMatches ==
    \A c \in SpeedRevealCells :
        IF Cardinality(HiddenUnflagged(c)) = board[c].n_mines
        THEN \A d \in HiddenUnflagged(c) : speed_reveal(board, c)[d].state = "revealed"
        ELSE speed_reveal(board, c) = board

-----------------------------------------------------------------------------
(* Secondary clicks.                                                       *)
(***************************************************************************)

\* C21: a secondary click on a revealed cell with number n > 0 flags all
\* its adjacent hidden cells when the number of adjacent hidden cells
\* equals n.
C21_SpeedFlagWhenHiddenCountMatches ==
    \A c \in SpeedRevealCells :
        Cardinality(HiddenUnflagged(c)) = board[c].n_mines
            => \A d \in HiddenUnflagged(c) : secondary_click(board, c)[d].state = "flagged"

\* There is a game.
InGame == state # "unknown"
FlaggedCells == { c \in Cells : board[c].state = "flagged" }

\* C22: in every reachable game state mines_left() equals cfg.mines minus
\* the number of cells in state flagged; question-marked cells are not
\* counted, and the value is negative when more cells are flagged than
\* cfg.mines.
C22_MinesLeftCountsFlags ==
    InGame => /\ mines_left(board) = cfg.mines - Cardinality(FlaggedCells)
              /\ Cardinality(FlaggedCells) > cfg.mines => mines_left(board) < 0

\* More cells are flagged than the board has mines.
C22_Witness == InGame /\ mines_left(board) < 0

\* A cell is question-marked and mines_left() is cfg.mines.
QuestionMarkNotCounted ==
    /\ InGame
    /\ \E c \in Cells : board[c].state = "q_marked"
    /\ mines_left(board) = cfg.mines

\* The cells a secondary click toggles: those not revealed, between clicks.
ToggleCells ==
    IF InGame /\ click.at = "idle"
    THEN { c \in Cells : board[c].state # "revealed" }
    ELSE {}

NextMark(s) == IF s = "hidden" THEN "flagged"
               ELSE IF s = "flagged" THEN "q_marked"
               ELSE "hidden"

\* On board a, b is a with the mark of c advanced and nothing else changed.
OnlyMarkAdvanced(a, b, c) ==
    /\ b[c] = [is_mine |-> a[c].is_mine, n_mines |-> a[c].n_mines,
               state |-> NextMark(a[c].state)]
    /\ \A d \in DOMAIN a : d # c => b[d] = a[d]

ThreeClicks(b, c) == secondary_click(secondary_click(secondary_click(b, c), c), c)

\* C23: a secondary click on a cell that is not revealed advances only
\* that cell's mark along hidden -> flagged -> q_marked -> hidden, changes
\* no other cell, no is_mine or n_mines value and not the game state; three
\* consecutive secondary clicks on the same cell restore the board.
C23_SecondaryClickCyclesMark ==
    /\ [](\A c \in ToggleCells :
            /\ OnlyMarkAdvanced(board, secondary_click(board, c), c)
            /\ ThreeClicks(board, c) = board)
    /\ [][\A c \in ToggleCells :
            on_secondary_click(c) =>
                /\ OnlyMarkAdvanced(board, board', c)
                /\ UNCHANGED << state, cfg, click >>]_vars

\* A game in progress in which a second click turned a flag into a
\* question mark.
C23_Witness == state = "playing" /\ \E c \in Cells : board[c].state = "q_marked"

-----------------------------------------------------------------------------
(* Termination of the first click.                                         *)
(*                                                                         *)
(* The first click alone, from a fresh game: once on_primary_click is      *)
(* entered the program runs its statements one after the other, so the     *)
(* steps inside the call are taken as long as one is enabled (weak         *)
(* fairness); nothing makes the player click.                              *)
(***************************************************************************)

GenerateBoardStep ==
    \/ GenerateAttempt
    \/ generate_mines
    \/ StartSolver
    \/ SolverPass
    \/ SolverDone
    \/ FinishFirstClick

FirstClickNext ==
    \/ \E c \in Cells : FirstClick(c)
    \/ GenerateBoardStep

FirstClickSpec ==
    GameInit /\ [][FirstClickNext]_vars /\ WF_vars(GenerateBoardStep)

InFirstClick == click.at # "idle"

\* The attempts are counted and the verdict is check_win's: while the first
\* click runs, no more than cfg.max_generation_attempts attempts were
\* started, and the step that leaves logically_solvable records whether
\* every cell without a mine was revealed, and goes on to reveal the board
\* when it was.
GenerateBoardAttempts ==
    /\ [](InFirstClick => click.i <= cfg.max_generation_attempts)
    /\ [][click.at = "solve" /\ click'.at # "solve"
            => /\ click'.result = check_win(board)
               /\ click'.result => click'.at = "reveal"]_vars

\* `while (progress)` is about to run a pass that leaves the board as it is
\* and sets progress again: every later pass is the same pass.
SolverLoopStuck ==
    /\ click.at = "solve"
    /\ click.progress
    /\ solver_pass(board) = [board |-> board, progress |-> TRUE]

\* C24: generate_board terminates for every valid configuration and start
\* cell: the deduction loop of logically_solvable ends in each attempt, so
\* it never comes to a pass that repeats itself for ever.
C24_SolverLoopEnds == ~SolverLoopStuck

\* generate_board returned true on a board with mines.
SolvedWithMines == Started /\ click.result /\ MineCells # {}

-----------------------------------------------------------------------------
(* Prefix operators next to another operator.                              *)
(***************************************************************************)

\* A prefix operator written directly after another operator, and the same
\* expression with the two operators apart.
UnaryPairs ==
    { [close |-> << "2", "*", "-", "3" >>, apart |-> << "2", " ", "*", " ", "-", "3" >>],
      [close |-> << "-", "-", "1" >>, apart |-> << "-", " ", "-", "1" >>],
      [close |-> << "!", "-", "1" >>, apart |-> << "!", " ", "-", "1" >>] }

\* What tokenize, parse and evaluate make of the source src.
SourceResult(src) ==
    IF ~tokenize(src).ok THEN Throw(tokenize(src).err, << >>)
    ELSE IF ~parse(tokenize(src).tokens).ok
    THEN Throw(parse(tokenize(src).tokens).err, << >>)
    ELSE ast_evaluate(SourceAst(src), ParseLocals)

\* C25: a prefix operator is recognised directly after another operator as
\* it is after whitespace: 2*-3, --1 and !-1 lex, parse to the AST of
\* 2 * -3, - -1 and ! -1, and evaluate to the same values.
C25_UnaryAfterOperator ==
    \A p \in UnaryPairs :
        source = p.close =>
            /\ phase # "lex error"
            /\ phase \in {"parsed", "evaluated"} =>
                    /\ parsed.ok
                    /\ parsed.node = SourceAst(p.apart)
            /\ phase = "evaluated" => SameResult(outcome, SourceResult(p.apart))

\* The operators apart: 2 * -3 is -6, - -1 is 1 and ! -1 is 0.
UnaryApartEvaluates ==
    /\ phase = "evaluated"
    /\ outcome.kind = "value"
    /\ \/ source = << "2", " ", "*", " ", "-", "3" >> /\ outcome.v = -6
       \/ source = << "-", " ", "-", "1" >> /\ outcome.v = 1
       \/ source = << "!", " ", "-", "1" >> /\ outcome.v = 0

-----------------------------------------------------------------------------
(* The handle after a refresh() that threw (specification Spec).           *)
(***************************************************************************)

\* refresh() has just thrown on the current source.
RefreshFailed == last.op = "refresh" /\ last.threw

\* C26: after a refresh() that failed because the current source does not
\* lex or parse, the handle does not serve the earlier source: the
\* evaluate() that follows, on the unchanged source, fails as well and
\* returns no value.
C26_FailedRefreshFailsEvaluate ==
    [][ (RefreshFailed /\ last'.op = "evaluate") =>
            /\ last'.threw
            /\ last'.result.kind # "value" ]_vars

\* evaluate() returned the value of an earlier source, 2+3*4, although the
\* current source does not parse.
StaleValueServed ==
    /\ last.op = "evaluate"
    /\ ~last.threw
    /\ expr # << >>
    /\ ~SourceParses(expr)
    /\ last.result.kind = "value"
    /\ last.result.v = 14

-----------------------------------------------------------------------------
(* Row and column layouts: the rebound pass over the linear_item children. *)
(*                                                                         *)
(* A column_layout or row_layout holds linear_item children; each item    *)
(* owns a linear_rule of three expression handles.  pre_rebound() copies   *)
(* every item's rule into a local vector and calculate_linear_layout      *)
(* evaluates the copies.  The positions and sizes that the pass then      *)
(* derives from the evaluated rules are read by no expression of the      *)
(* layout and are left out; the two layouts differ in nothing else.       *)
(***************************************************************************)

\* linear_item children of the layout.
NumItems == 2

\* Rebound passes followed on one layout.
MaxRebounds == 3

Items == 1..NumItems
RuleFields == {"weight", "min_shrink", "max_shrink"}

\* flux(std::string expr): a handle that has not been evaluated.
new_flux(src) == [expr |-> src, ast |-> NullAst, variables |-> Empty]

\* struct linear_rule
linear_rule(min, max, weight) ==
    [min_shrink |-> new_flux(min), max_shrink |-> new_flux(max), weight |-> new_flux(weight)]

S_psx == << "p", "s", "x" >>
S_psy == << "p", "s", "y" >>
S_w == << "w" >>
S_one == << "1" >>

\* The rules given to the items: the expressions evaluate to whole numbers,
\* or are empty, or do not parse.
WeightSources == { S_empty, S_one }
MinShrinkSources == { S_psx, S_w }
MaxShrinkSources == { S_empty, S_psy, S_trailing }

LinearRules ==
    { linear_rule(min, max, weight) :
        min \in MinShrinkSources, max \in MaxShrinkSources, weight \in WeightSources }

\* The bounds that fit_parent_size() gives the layout.
ParentBounds == { [width |-> 30, height |-> 20], [width |-> 40, height |-> 20] }

\* variables[name] = x
set_variable(h, name, x) ==
    [h EXCEPT !.variables =
        [n \in DOMAIN @ \cup {name} |-> IF n = name THEN x ELSE @[n]]]

set_parent_size(h, b) ==
    set_variable(set_variable(h, "psx", b.width), "psy", b.height)

\* What linear_rule::evaluate did on the rule: the rule after it, whether it
\* threw, the calls of tokenize() and parse() by expression, and the eval.
RuleDone(rule, threw, nt, np, eval) ==
    [rule |-> rule, threw |-> threw, tokenized |-> nt, parsed |-> np, eval |-> eval]

NoCalls == [f \in RuleFields |-> 0]
Calls(c, f, n) == [c EXCEPT ![f] = @ + n]

\* linear_rule::evaluate from `eval.max_shrink = max_shrink` on: d is what
\* the conversion of max_shrink to float did.
rule_evaluated_max(r, d) ==
    RuleDone([r.rule EXCEPT !.max_shrink = d.h], d.threw,
             Calls(r.tokenized, "max_shrink", d.tokenized),
             Calls(r.parsed, "max_shrink", d.parsed),
             [r.eval EXCEPT !.max_shrink = d.result.v])

\* linear_rule::evaluate, the max_shrink part.
rule_evaluate_max(r, b) ==
    IF r.threw THEN r
    ELSE rule_evaluated_max(r,
            flux_evaluate(set_variable(set_parent_size(r.rule.max_shrink, b),
                                       "w", r.eval.weight)))

rule_evaluated_min(r, d) ==
    RuleDone([r.rule EXCEPT !.min_shrink = d.h], d.threw,
             Calls(r.tokenized, "min_shrink", d.tokenized),
             Calls(r.parsed, "min_shrink", d.parsed),
             [r.eval EXCEPT !.min_shrink = d.result.v])

\* linear_rule::evaluate, the min_shrink part.
rule_evaluate_min(r, b) ==
    IF r.threw THEN r
    ELSE rule_evaluated_min(r,
            flux_evaluate(set_variable(set_parent_size(r.rule.min_shrink, b),
                                       "w", r.eval.weight)))

rule_evaluated_weight(rule, d) ==
    RuleDone([rule EXCEPT !.weight = d.h], d.threw,
             Calls(NoCalls, "weight", d.tokenized),
             Calls(NoCalls, "weight", d.parsed),
             [weight |-> d.result.v, min_shrink |-> 0, max_shrink |-> 0])

\* linear_rule::evaluate, the weight part.
rule_evaluate_weight(rule, b) ==
    rule_evaluated_weight(rule, flux_evaluate(set_parent_size(rule.weight, b)))

\* linear_rule::evaluate(p_bounds)
rule_evaluate(rule, b) ==
    rule_evaluate_max(rule_evaluate_min(rule_evaluate_weight(rule, b), b), b)

\* calculate_linear_layout, step 0: `for (auto &rule : rules)` from the i-th
\* rule on, done the results so far; an exception ends the loop.
RECURSIVE evaluate_rules(_, _, _, _)
evaluate_rules(rules, i, b, done) ==
    IF i > Len(rules) \/ (done # << >> /\ done[Len(done)].threw) THEN done
    ELSE evaluate_rules(rules, i + 1, b, Append(done, rule_evaluate(rules[i], b)))

\* pre_rebound: `rules.emplace_back(item->rule)` for every child.
copied_rules(items) == [i \in 1..Len(items) |-> items[i].rule]

\* The calls counted for the rules that the pass came to.
counted(count, done) ==
    [i \in DOMAIN count |->
        IF i > Len(done) THEN count[i]
        ELSE [tokenized |-> [f \in RuleFields |-> count[i].tokenized[f] + done[i].tokenized[f]],
              parsed |-> [f \in RuleFields |-> count[i].parsed[f] + done[i].parsed[f]]]]

LayoutInit ==
    /\ NoHandle
    /\ constants = HandleConstants
    /\ NoSource
    /\ NoThreads
    /\ NoGame
    /\ tokens = << >>
    /\ parsed = ParseError(<< >>)
    /\ node = NullAst
    /\ locals = Empty
    /\ outcome = NoOutcome
    /\ phase = "handle"
    /\ children \in [Items -> [rule : LinearRules]]
    /\ l_bounds \in ParentBounds
    /\ evals = << >>
    /\ rebounds = 0
    /\ lex_count = [i \in Items |-> [tokenized |-> NoCalls, parsed |-> NoCalls]]

\* The pass after calculate_linear_layout worked on the copies: the items
\* keep their rules.
rebound_done(done) ==
    /\ evals' = [i \in 1..Len(done) |-> [threw |-> done[i].threw, eval |-> done[i].eval]]
    /\ lex_count' = counted(lex_count, done)

\* column_layout::pre_rebound and row_layout::pre_rebound: the layout takes
\* the bounds b from its parent and lays its children out.
pre_rebound(b) ==
    /\ rebounds < MaxRebounds
    /\ l_bounds' = b
    /\ rebound_done(evaluate_rules(copied_rules(children), 1, b, << >>))
    /\ rebounds' = rebounds + 1
    /\ UNCHANGED << children, handle_vars, constants, check_vars, thread_vars, game_vars >>

LayoutNext == \E b \in ParentBounds : pre_rebound(b)

LayoutSpec == LayoutInit /\ [][LayoutNext]_vars

\* C27: across the rebound passes of a row or column layout, each of the
\* expressions min_shrink, max_shrink and weight of each linear_item is
\* lexed and parsed at most once; later passes reuse the item's cached AST.
C27_RulesParsedOnce ==
    \A i \in Items : \A f \in RuleFields :
        /\ lex_count[i].tokenized[f] <= 1
        /\ lex_count[i].parsed[f] <= 1

\* The passes leave every item's own handles without an AST: what a pass
\* parses is cached in the copy it evaluates.
ItemsKeepNoAst ==
    \A i \in Items : \A f \in RuleFields : children[i].rule[f].ast = NullAst

\* Two passes evaluated an item's min_shrink with the parent's sizes.
TwoPassesEvaluated ==
    /\ rebounds = 2
    /\ Len(evals) = NumItems
    /\ ~evals[1].threw
    /\ children[1].rule.min_shrink.expr = S_psx
    /\ evals[1].eval.min_shrink = l_bounds.width
    /\ lex_count[1].tokenized.min_shrink = 2

-----------------------------------------------------------------------------
(* Revealed mines (specification GameSpec).                                *)
(***************************************************************************)

RevealedMines == { c \in DOMAIN board : board[c].is_mine /\ board[c].state = "revealed" }

\* C28: between the clicks, a mine is in state revealed only in a lost
\* game: no primary or secondary click reveals a mine and leaves the game
\* playing or won.
C28_RevealedMineMeansLost ==
    (click.at = "idle" /\ RevealedMines # {}) => state = "lost"

\* A game won with a mine revealed.
WonWithRevealedMine == click.at = "idle" /\ RevealedMines # {} /\ state = "won"

====
